---- MODULE Spec2Model ----
(***************************************************************************)
(* Version-manifest synchronisation of the homebrew-canton tap.            *)
(*                                                                         *)
(* scripts/generate-version-manifest.ts (manifest sync) and                *)
(* scripts/create-versioned-formula.rb share one persisted file,           *)
(* canton-versions.json.  The model follows one process at a time through  *)
(* these scripts, with the upstream API, the asset downloads and the file  *)
(* system as the environment.                                              *)
(***************************************************************************)
EXTENDS Integers, Sequences, FiniteSets, TLC

(***************************************************************************)
(* Bounds of the model.                                                    *)
(***************************************************************************)
\* largest limit argument tried on the command line
MaxLimit == 2
\* the clock (new Date()) reads 0..MaxClock
MaxClock == 0
\* number of different contents an asset URL may serve over time
MaxContent == 1

\* publication times of the releases a listing may hold: 1..MaxPublished
MaxPublished == 3
\* largest number of releases in a listing
MaxListed == 3

\* reports the CI-output file takes before the runs of the update stop
MaxReports == 2
\* length of Formula/canton.rb beyond which it is not rewritten again
MaxFormula == 160

\* createHash("sha256"): a digest has 32 bytes
DigestBytes == 32

Undefined == <<"undefined">>

\* strings the scripts take apart are sequences of characters
TagStable   == <<"v","3",".","4",".","9">>
TagSnapshot == <<"v","3",".","5","-","s","n","a","p","s","h","o","t">>
TagNoAsset  == <<"v","3",".","4",".","8">>
VerStable   == <<"3",".","4",".","9">>
VerSnapshot == <<"3",".","5","-","s","n","a","p","s","h","o","t",".","1">>
CantonStem  == "canton-open-source"
TarGz       == ".tar.gz"

HexDigits == <<"0","1","2","3","4","5","6","7","8","9","a","b","c","d","e","f">>

(***************************************************************************)
(* Strings.                                                                *)
(***************************************************************************)
LowerCase == <<"a","b","c","d","e","f","g","h","i","j","k","l","m",
               "n","o","p","q","r","s","t","u","v","w","x","y","z">>
UpperCase == <<"A","B","C","D","E","F","G","H","I","J","K","L","M",
               "N","O","P","Q","R","S","T","U","V","W","X","Y","Z">>
Digits == <<"0","1","2","3","4","5","6","7","8","9">>

Range(s) == { s[i] : i \in 1..Len(s) }

IsAlnum(c) == c \in Range(LowerCase) \cup Range(UpperCase) \cup Range(Digits)

Upcase(c) ==
  IF c \in Range(LowerCase)
    THEN UpperCase[CHOOSE i \in 1..Len(LowerCase) : LowerCase[i] = c] ELSE c

Downcase(c) ==
  IF c \in Range(UpperCase)
    THEN LowerCase[CHOOSE i \in 1..Len(UpperCase) : UpperCase[i] = c] ELSE c

\* String#capitalize: first character upcased, the rest downcased
Capitalize(s) ==
  [ i \in 1..Len(s) |-> IF i = 1 THEN Upcase(s[i]) ELSE Downcase(s[i]) ]

StartsWithV(s) == Len(s) > 0 /\ s[1] = "v"

\* daml_tag.start_with?('v') ? daml_tag : "v#{daml_tag}"
TagWithV(s) == IF StartsWithV(s) THEN s ELSE <<"v">> \o s

\* gsub(/^v/, '')
StripV(s) == IF StartsWithV(s) THEN Tail(s) ELSE s

(***************************************************************************)
(* The upstream release host.                                              *)
(***************************************************************************)
CantonAsset(tag, ver) ==
  [ name |-> [stem |-> CantonStem, version |-> ver, ext |-> TarGz],
    browser_download_url |-> <<"download", tag, ver>> ]

OtherAsset(tag, st, ex) ==
  [ name |-> [stem |-> st, version |-> tag, ext |-> ex],
    browser_download_url |-> <<"download", tag, st>> ]

\* The releases the GitHub API may list: tag_name, prerelease, published_at
\* (as Date.getTime()), assets.
GitHubReleases ==
  { [ tag_name |-> TagStable, prerelease |-> FALSE, published_at |-> 2,
      assets |-> << CantonAsset(TagStable, VerStable) >> ],
    [ tag_name |-> TagSnapshot, prerelease |-> TRUE, published_at |-> 1,
      assets |-> << OtherAsset(TagSnapshot, "daml-sdk", TarGz),
                    CantonAsset(TagSnapshot, VerSnapshot) >> ],
    [ tag_name |-> TagNoAsset, prerelease |-> FALSE, published_at |-> 3,
      assets |-> << OtherAsset(TagNoAsset, CantonStem, ".zip") >> ] }

Tags == { r.tag_name : r \in GitHubReleases }

\* API listing order: newest tag first
ApiOrder == << TagNoAsset, TagStable, TagSnapshot >>

ReleaseOf(tag) == CHOOSE r \in GitHubReleases : r.tag_name = tag

\* A response of the releases endpoint: the listed releases, in API order.
Response(S) ==
  LET tags == SelectSeq(ApiOrder, LAMBDA t : t \in S)
  IN  [ i \in 1..Len(tags) |-> ReleaseOf(tags[i]) ]

Responses == { Response(S) : S \in SUBSET Tags }

(***************************************************************************)
(* getAllCantonVersions: filter, map, sort.                                *)
(***************************************************************************)
IsCantonAsset(asset) ==
  asset.name.stem = CantonStem /\ asset.name.ext = TarGz

HasCantonAsset(release) ==
  \E i \in 1..Len(release.assets) : IsCantonAsset(release.assets[i])

FindCantonAsset(release) ==
  LET i == CHOOSE k \in 1..Len(release.assets) :
             /\ IsCantonAsset(release.assets[k])
             /\ \A j \in 1..(k-1) : ~IsCantonAsset(release.assets[j])
  IN  release.assets[i]

ToCantonRelease(release) ==
  LET cantonAsset == FindCantonAsset(release)
  IN  [ cantonVersion |-> cantonAsset.name.version,
        damlTag       |-> release.tag_name,
        downloadUrl   |-> cantonAsset.browser_download_url,
        isPrerelease  |-> release.prerelease,
        publishedAt   |-> release.published_at ]

\* a comparator that looks at the publication date only
CompareByDate(a, b) == b.publishedAt - a.publishedAt

\* the comparator of .sort(): negative when a goes first
CompareReleases(a, b) ==
  IF a.isPrerelease /\ ~b.isPrerelease THEN -1
  ELSE IF ~a.isPrerelease /\ b.isPrerelease THEN 1
  ELSE b.publishedAt - a.publishedAt

\* insert x into the sorted sequence s behind every element that does not
\* compare greater (Array.prototype.sort is stable)
InsertSorted(s, x) ==
  LET before == { i \in 0..Len(s) :
                    \A j \in 1..i : CompareReleases(s[j], x) <= 0 }
      k == CHOOSE i \in before : \A j \in before : j <= i
  IN  SubSeq(s, 1, k) \o <<x>> \o SubSeq(s, k + 1, Len(s))

RECURSIVE SortReleases(_)
SortReleases(s) ==
  IF s = <<>> THEN <<>>
  ELSE InsertSorted(SortReleases(SubSeq(s, 1, Len(s) - 1)), s[Len(s)])

getAllCantonVersions(response) ==
  LET kept == SelectSeq(response, HasCantonAsset)
  IN  SortReleases([ i \in 1..Len(kept) |-> ToCantonRelease(kept[i]) ])

\* a slice that takes one element too many
SliceInclusive(s, n) == SubSeq(s, 1, IF n + 1 < Len(s) THEN n + 1 ELSE Len(s))

\* releases.slice(0, limit)
Slice(s, n) == SubSeq(s, 1, IF n < Len(s) THEN n ELSE Len(s))

(***************************************************************************)
(* calculateSha256: download, SHA-256, hex encoding.                       *)
(***************************************************************************)
\* the 32 digest bytes of the content that url serves in version v
Sha256Bytes(url, v) ==
  LET seed == Len(url[2]) + Len(url[3])
  IN  [ i \in 1..DigestBytes |-> (seed * i * i + 97 * v + 13 * i) % 256 ]

HexByte(b) == << HexDigits[(b \div 16) + 1], HexDigits[(b % 16) + 1] >>

RECURSIVE HexEncode(_)
HexEncode(bytes) ==
  IF bytes = <<>> THEN <<>>
  ELSE HexByte(bytes[1]) \o HexEncode(Tail(bytes))

calculateSha256(url, v) == HexEncode(Sha256Bytes(url, v))

ContentVersions == 1..MaxContent

IsHexDigest(s) ==
  /\ Len(s) = 2 * DigestBytes
  /\ \A i \in 1..Len(s) : \E k \in 1..16 : s[i] = HexDigits[k]

(***************************************************************************)
(* canton-versions.json and the in-memory manifest.                        *)
(***************************************************************************)
NoVersions == [ t \in {} |-> 0 ]

\* new Date(): later than every upstream publication
Epoch == 1 + CHOOSE n \in { r.published_at : r \in GitHubReleases } :
               \A r \in GitHubReleases : r.published_at <= n

Clock == Epoch..(Epoch + MaxClock)

\* what the file at MANIFEST_PATH holds: no file, text that JSON.parse
\* rejects (a truncated write included), JSON without a versions object, or
\* a manifest
MissingFile == [ kind |-> "missing", versions |-> NoVersions, updated_at |-> 0 ]
CorruptFile == [ kind |-> "corrupt", versions |-> NoVersions, updated_at |-> 0 ]
ShapelessFile == [ kind |-> "noversions", versions |-> NoVersions, updated_at |-> 0 ]

\* the keys of a manifest entry
EntryKeys ==
  { "canton_version", "download_url", "sha256", "is_prerelease", "published_at" }

\* a serialisation that leaves out empty strings as well
StringifyDropsEmpty(m) ==
  [ updated_at |-> m.updated_at,
    versions |->
      [ t \in DOMAIN m.versions |->
          LET e == m.versions[t]
              kept == { k \in EntryKeys :
                          \/ k \in { "is_prerelease", "published_at" }
                          \/ (e[k] # Undefined /\ e[k] # <<>>) }
          IN  [ k \in kept |-> e[k] ] ] ]

\* JSON.stringify(manifest, null, 2), line 118: the document written, as
\* its members; a key whose value is undefined is left out
JSONstringify(m) ==
  [ updated_at |-> m.updated_at,
    versions |->
      [ t \in DOMAIN m.versions |->
          LET e == m.versions[t]
              kept == { k \in EntryKeys :
                          \/ k \in { "is_prerelease", "published_at" }
                          \/ e[k] # Undefined }
          IN  [ k \in kept |-> e[k] ] ] ]

\* JSON.parse(content), line 107: the object read back; a key the document
\* does not hold reads as undefined
JSONparse(text) ==
  [ updated_at |-> text.updated_at,
    versions |->
      [ t \in DOMAIN text.versions |->
          [ k \in EntryKeys |->
              IF k \in DOMAIN text.versions[t]
                THEN text.versions[t][k] ELSE Undefined ] ] ]

\* the file a completed write of manifest m leaves, held as the document
\* its text parses to
ManifestFile(m) ==
  LET doc == JSONparse(JSONstringify(m))
  IN  [ kind |-> "ok", versions |-> doc.versions, updated_at |-> doc.updated_at ]

NoManifest == [ shape |-> "none", versions |-> NoVersions, updated_at |-> 0 ]

\* the tags whose release carries a canton asset
CantonTags == { r.tag_name : r \in { g \in GitHubReleases : HasCantonAsset(g) } }

\* an entry as one of the scripts writes it, with digest d
EntryOf(tag, d, at) ==
  LET c == ToCantonRelease(ReleaseOf(tag))
  IN  [ canton_version |-> c.cantonVersion,
        download_url   |-> c.downloadUrl,
        sha256         |-> d,
        is_prerelease  |-> c.isPrerelease,
        published_at   |-> at ]

\* digests a stored entry may carry: none, the empty string, or the digest
\* of some content the asset URL has served
StoredDigests(tag) ==
  { Undefined, <<>> } \cup
  { calculateSha256(ToCantonRelease(ReleaseOf(tag)).downloadUrl, v) :
      v \in ContentVersions }

StoredEntries(tag) ==
  { EntryOf(tag, d, ReleaseOf(tag).published_at) : d \in StoredDigests(tag) }

InitialFiles ==
  { MissingFile, CorruptFile, ShapelessFile } \cup
  { [ kind |-> "ok", versions |-> vs, updated_at |-> Epoch ] :
      vs \in UNION { { f \in [ S -> UNION { StoredEntries(t) : t \in S } ] :
                         \A t \in S : f[t] \in StoredEntries(t) } :
                     S \in SUBSET CantonTags } }

\* a test for presence only, which takes the empty string for a digest
Present(d) == d # Undefined

\* JavaScript truthiness of a sha256 field
Truthy(d) == d # Undefined /\ d # <<>>

\* loadManifest catching only the missing file: a parse error reaches the
\* caller
loadManifestParseThrows(f, now) ==
  IF f.kind = "missing"
    THEN [ shape |-> "ok", versions |-> NoVersions, updated_at |-> now ]
  ELSE IF f.kind \in { "corrupt", "noversions" }
    THEN [ shape |-> "noversions", versions |-> NoVersions, updated_at |-> 0 ]
  ELSE [ shape |-> "ok", versions |-> f.versions, updated_at |-> f.updated_at ]

\* loadManifest, lines 104-114
loadManifest(f, now) ==
  IF f.kind \in { "missing", "corrupt" }
    THEN [ shape |-> "ok", versions |-> NoVersions, updated_at |-> now ]
  ELSE IF f.kind = "noversions"
    THEN [ shape |-> "noversions", versions |-> NoVersions, updated_at |-> 0 ]
  ELSE [ shape |-> "ok", versions |-> f.versions, updated_at |-> f.updated_at ]

\* the lookup keyed by the canton version instead of the DAML tag
HasSha256OfVersion(m, tag) ==
  StripV(tag) \in DOMAIN m.versions /\ Truthy(m.versions[StripV(tag)].sha256)

\* manifest.versions[release.damlTag]?.sha256, line 141
HasSha256(m, tag) ==
  tag \in DOMAIN m.versions /\ Truthy(m.versions[tag].sha256)

\* an assignment that replaces the versions object by one with the new
\* entry alone
WithOnlyEntry(m, tag, e) ==
  [ m EXCEPT !.versions = [ t \in { tag } |-> e ] ]

\* manifest.versions[tag] = {...}, lines 156-162
WithEntry(m, tag, e) ==
  [ m EXCEPT !.versions =
      [ t \in DOMAIN m.versions \cup { tag } |->
          IF t = tag THEN e ELSE m.versions[t] ] ]


(***************************************************************************)
(* State.                                                                  *)
(***************************************************************************)
VARIABLES
  file,             \* content of canton-versions.json
  formulaDir,       \* Formula/: file name -> content
  pc,               \* position of the running process
  limit,            \* generateManifest's argument
  manifest,         \* the process's in-memory manifest
  releases,         \* what getAllCantonVersions returned
  topReleases,      \* releases.slice(0, limit)
  idx,              \* position of the for loop (from 1)
  newVersions,
  skippedVersions,
  hashed,           \* tags whose digest this run has computed
  failed,           \* tags whose digest download failed in this run
  exitCode,         \* exit code of the last process: "none" while it
                    \* runs, "0", "1", or "signal"
  event,            \* what the last step did: kind and tag
  newVersionTags,   \* generate-formulas-for-new-releases.ts: newVersions
  generated,        \* generate-formulas-for-new-releases.ts: generated
  invoked,          \* arguments of the generate-versioned-formula.ts
                    \* subprocesses this run has started
  count,            \* verify-sha256.ts: count
  versions,         \* verify-sha256.ts: versions, the entries to verify
  errors,           \* verify-sha256.ts: errors
  reported,         \* verify-sha256.ts: the result printed for each entry
  overwrite,        \* generate-versioned-formula.ts: what the last process
                    \* was answered to "Overwrite? (y/N)", if it asked
  apiResponse,      \* canton-versions.ts: the releases the API lists
  other,            \* a second manifest-sync process, while the first
                    \* one runs: its position and its variables
  inFlight,         \* canton-versions.ts: the tags whose asset download
                    \* was issued and has not ended
  githubOutput,     \* update-main-formula-sha256.ts: whether
                    \* process.env.GITHUB_OUTPUT was set for the last process
  ciOutput,         \* the lines of the file GITHUB_OUTPUT names
  mainLatest,       \* Formula/canton.rb: latest, the record the formula
                    \* was loaded with
  responseCode,     \* Formula/canton.rb: response.code of the API call
  envCantonVersion, \* ENV["CANTON_VERSION"] of the process that loaded
                    \* the formula
  EXISTING_TAGS,    \* update.sh: the versions that have a tag canton-<version>
  PROCESSED_COUNT,  \* update.sh
  PROCESSED_VERSIONS, \* update.sh
  GITHUB_TOKEN      \* update.sh: whether the variable is set

\* the variables no manifest-sync run, generator or verifier touches
shVars == << EXISTING_TAGS, PROCESSED_COUNT, PROCESSED_VERSIONS, GITHUB_TOKEN >>
loadVars == << mainLatest, responseCode, envCantonVersion >>
cmdVars == << inFlight, githubOutput, ciOutput, loadVars, shVars >>
restVars == << other, cmdVars >>

\* the variables of the manifest-sync process
syncVars == << limit, manifest, releases, topReleases, newVersions,
               skippedVersions, hashed, failed >>

\* the variables of the formula generators and of the verifier
toolVars == << newVersionTags, generated, invoked, count, versions, errors,
               reported, overwrite,
               apiResponse, restVars >>

vars == << file, formulaDir, pc, limit, manifest, releases, topReleases, idx,
           newVersions, skippedVersions, hashed, failed, exitCode, event,
           newVersionTags, generated, invoked, count, versions, errors, reported,
           overwrite,
           apiResponse, restVars >>

NoTag == <<>>

\* no prompt was shown
NotAsked == "not asked"

\* a JavaScript number: an integer or NaN
Number(n) == [ nan |-> FALSE, value |-> n ]
NaN == [ nan |-> TRUE, value |-> 0 ]

\* a step that issued no download, and one that downloaded t's asset
Ev(k, t) == [ kind |-> k, tag |-> t, download |-> FALSE ]
Dl(k, t) == [ kind |-> k, tag |-> t, download |-> TRUE ]

\* no generator and no verifier has run
ToolsIdle ==
  /\ newVersionTags = <<>>
  /\ generated = <<>>
  /\ invoked = <<>>
  /\ count = Number(0)
  /\ versions = <<>>
  /\ errors = 0
  /\ reported = <<>>
  /\ overwrite = NotAsked

\* a process that has not started: generateManifest's variables, in the
\* order pc, limit, manifest, releases, topReleases, idx, newVersions,
\* skippedVersions, hashed, failed, exitCode
NotStarted ==
  << "idle", 0, NoManifest, <<>>, <<>>, 1, 0, 0, {}, {}, "none" >>

\* the main formula was not loaded
NotLoaded ==
  [ daml_tag |-> <<>>, canton_version |-> <<>>, download_url |-> <<>>,
    sha256 |-> Undefined, is_prerelease |-> FALSE ]

\* nothing else has run
RestIdle ==
  /\ other = NotStarted
  /\ inFlight = {}
  /\ githubOutput = FALSE
  /\ ciOutput = <<>>
  /\ mainLatest = NotLoaded
  /\ responseCode = "none"
  /\ envCantonVersion = Undefined
  /\ EXISTING_TAGS = {}
  /\ PROCESSED_COUNT = 0
  /\ PROCESSED_VERSIONS = <<>>
  /\ GITHUB_TOKEN = FALSE

\* no process has run
NothingRan ==
  /\ RestIdle
  /\ pc = "idle"
  /\ limit = 0
  /\ manifest = NoManifest
  /\ releases = <<>>
  /\ topReleases = <<>>
  /\ idx = 1
  /\ newVersions = 0
  /\ skippedVersions = 0
  /\ hashed = {}
  /\ failed = {}
  /\ exitCode = "none"
  /\ event = Ev("none", NoTag)
  /\ ToolsIdle

Init ==
  /\ file \in InitialFiles
  /\ formulaDir = NoVersions
  /\ apiResponse = <<>>
  /\ NothingRan

Stopped == pc \in { "idle", "done", "killed" }

(***************************************************************************)
(* scripts/generate-version-manifest.ts                                    *)
(***************************************************************************)
\* the limit the CLI hands to generateManifest when no argument is given
DefaultLimit == 10

\* process.argv.slice(2): no argument, or a number 0..MaxLimit
LimitArgs == { <<>> } \cup { <<n>> : n \in 0..MaxLimit }

\* CLI interface, lines 183-194: parse the limit, reject limit < 1
SyncStart(argv) ==
  /\ Stopped
  /\ UNCHANGED toolVars
  /\ limit' = IF argv = <<>> THEN DefaultLimit ELSE argv[1]
  /\ IF limit' < 1
       THEN /\ pc' = "done"
            /\ exitCode' = "1"
            /\ event' = Ev("usage", NoTag)
       ELSE /\ pc' = "load"
            /\ exitCode' = "none"
            /\ event' = Ev("start", NoTag)
  /\ manifest' = NoManifest
  /\ releases' = <<>>
  /\ topReleases' = <<>>
  /\ idx' = 1
  /\ newVersions' = 0
  /\ skippedVersions' = 0
  /\ hashed' = {}
  /\ failed' = {}
  /\ UNCHANGED << file, formulaDir >>

\* generateManifest, lines 125-126: load; Object.keys(manifest.versions)
\* throws when the parsed JSON has no versions, the rejection reaches
\* .catch(console.error) of line 193 and the process ends normally
SyncLoad(now) ==
  /\ pc = "load"
  /\ UNCHANGED toolVars
  /\ manifest' = loadManifest(file, now)
  /\ IF manifest'.shape = "noversions"
       THEN /\ pc' = "done"
            /\ exitCode' = "0"
            /\ event' = Ev("type_error", NoTag)
       ELSE /\ pc' = "fetch"
            /\ event' = Ev("loaded", NoTag)
            /\ UNCHANGED exitCode
  /\ UNCHANGED << file, formulaDir, limit, releases, topReleases, idx, newVersions,
                  skippedVersions, hashed, failed >>

\* lines 129-137: the release list arrives; slice(0, limit)
SyncFetch(response) ==
  /\ pc = "fetch"
  /\ UNCHANGED toolVars
  /\ releases' = getAllCantonVersions(response)
  /\ topReleases' = Slice(releases', limit)
  /\ pc' = "loop"
  /\ event' = Ev("fetched", NoTag)
  /\ UNCHANGED << file, formulaDir, limit, manifest, idx, newVersions,
                  skippedVersions, hashed, failed, exitCode >>

\* lines 23-26: the fetch fails or answers with a non-success status;
\* getAllCantonVersions throws, generateManifest rejects, line 193 logs
SyncFetchFail ==
  /\ pc = "fetch"
  /\ UNCHANGED toolVars
  /\ pc' = "done"
  /\ exitCode' = "0"
  /\ event' = Ev("fetch_failed", NoTag)
  /\ UNCHANGED << file, formulaDir, limit, manifest, releases, topReleases, idx,
                  newVersions, skippedVersions, hashed, failed >>

InLoop == pc = "loop" /\ idx <= Len(topReleases)

\* lines 141-145: already in the manifest with a SHA256
SyncSkip ==
  /\ InLoop
  /\ UNCHANGED toolVars
  /\ HasSha256(manifest, topReleases[idx].damlTag)
  /\ skippedVersions' = skippedVersions + 1
  /\ idx' = idx + 1
  /\ event' = Ev("skipped", topReleases[idx].damlTag)
  /\ UNCHANGED << file, formulaDir, pc, limit, manifest, releases, topReleases,
                  newVersions, hashed, failed, exitCode >>

\* lines 153-165: the download succeeds, serving content version v
SyncHash(v) ==
  /\ InLoop
  /\ UNCHANGED toolVars
  /\ ~HasSha256(manifest, topReleases[idx].damlTag)
  /\ LET release == topReleases[idx]
         sha256 == calculateSha256(release.downloadUrl, v)
     IN  /\ manifest' = WithEntry(manifest, release.damlTag,
                          [ canton_version |-> release.cantonVersion,
                            download_url   |-> release.downloadUrl,
                            sha256         |-> sha256,
                            is_prerelease  |-> release.isPrerelease,
                            published_at   |-> release.publishedAt ])
         /\ hashed' = hashed \cup { release.damlTag }
         /\ event' = Dl("hashed", release.damlTag)
  /\ UNCHANGED failed
  /\ newVersions' = newVersions + 1
  /\ pc' = "save"
  /\ UNCHANGED << file, formulaDir, limit, releases, topReleases, idx,
                  skippedVersions, exitCode >>

\* the download failure leaving the loop, as without the try/catch
SyncHashFailAborts ==
  /\ InLoop
  /\ UNCHANGED toolVars
  /\ ~HasSha256(manifest, topReleases[idx].damlTag)
  /\ pc' = "done"
  /\ exitCode' = "0"
  /\ failed' = failed \cup { topReleases[idx].damlTag }
  /\ event' = Dl("hash_failed", topReleases[idx].damlTag)
  /\ UNCHANGED << file, formulaDir, limit, manifest, releases, topReleases,
                  idx, newVersions, skippedVersions, hashed >>

\* lines 78-81 and 170-172: the download fails, the catch logs it
SyncHashFail ==
  /\ InLoop
  /\ UNCHANGED toolVars
  /\ ~HasSha256(manifest, topReleases[idx].damlTag)
  /\ idx' = idx + 1
  /\ failed' = failed \cup { topReleases[idx].damlTag }
  /\ event' = Dl("hash_failed", topReleases[idx].damlTag)
  /\ UNCHANGED << file, formulaDir, pc, limit, manifest, releases, topReleases,
                  newVersions, skippedVersions, hashed, exitCode >>

\* saveManifest, lines 116-119, when writeFile succeeds
SyncSave(now) ==
  /\ pc = "save"
  /\ UNCHANGED toolVars
  /\ now >= manifest.updated_at
  /\ manifest' = [ manifest EXCEPT !.updated_at = now ]
  /\ file' = ManifestFile(manifest')
  /\ idx' = idx + 1
  /\ pc' = "loop"
  /\ event' = Ev("saved", topReleases[idx].damlTag)
  /\ UNCHANGED << formulaDir, limit, releases, topReleases, newVersions,
                  skippedVersions, hashed, failed, exitCode >>

\* what a writeFile that does not complete leaves at the path: the old
\* content (the open failed) or a truncated file (the write failed)
PartialWrites(old) == { old, CorruptFile }

\* saveManifest when writeFile rejects: the catch of lines 170-172 logs it
\* and the loop goes on
SyncSaveFail(now) ==
  /\ pc = "save"
  /\ UNCHANGED toolVars
  /\ now >= manifest.updated_at
  /\ manifest' = [ manifest EXCEPT !.updated_at = now ]
  /\ file' \in PartialWrites(file)
  /\ idx' = idx + 1
  /\ pc' = "loop"
  /\ event' = Ev("save_failed", topReleases[idx].damlTag)
  /\ UNCHANGED << formulaDir, limit, releases, topReleases, newVersions,
                  skippedVersions, hashed, failed, exitCode >>

\* lines 175-179: the summary; the process ends normally
SyncFinish ==
  /\ pc = "loop"
  /\ UNCHANGED toolVars
  /\ idx > Len(topReleases)
  /\ pc' = "done"
  /\ exitCode' = "0"
  /\ event' = Ev("summary", NoTag)
  /\ UNCHANGED << file, formulaDir, limit, manifest, releases, topReleases, idx,
                  newVersions, skippedVersions, hashed, failed >>

\* the process is interrupted (killed); during writeFile the file is left
\* as it was, truncated, or complete
SyncInterrupt(now) ==
  /\ ~Stopped
  /\ UNCHANGED toolVars
  /\ now >= manifest.updated_at
  /\ IF pc = "save"
       THEN file' \in PartialWrites(file) \cup
                      { ManifestFile([ manifest EXCEPT !.updated_at = now ]) }
       ELSE file' = file
  /\ pc' = "killed"
  /\ exitCode' = "signal"
  /\ event' = Ev("killed", NoTag)
  /\ UNCHANGED << formulaDir, limit, manifest, releases, topReleases, idx,
                  newVersions, skippedVersions, hashed, failed >>

\* the variables of the running manifest-sync process, in the order of
\* NotStarted
Running ==
  << pc, limit, manifest, releases, topReleases, idx, newVersions,
     skippedVersions, hashed, failed, exitCode >>

\* generateManifest awaits (lines 125, 129, 153, 165): while one process
\* waits the other one runs.  The processes share canton-versions.json and
\* nothing else
Switch ==
  /\ pc' = other[1]
  /\ limit' = other[2]
  /\ manifest' = other[3]
  /\ releases' = other[4]
  /\ topReleases' = other[5]
  /\ idx' = other[6]
  /\ newVersions' = other[7]
  /\ skippedVersions' = other[8]
  /\ hashed' = other[9]
  /\ failed' = other[10]
  /\ exitCode' = other[11]
  /\ other' = Running
  /\ event' = Ev("switched", NoTag)
  /\ UNCHANGED << file, formulaDir, newVersionTags, generated, invoked, count,
                  versions, errors, reported, overwrite, apiResponse,
                  cmdVars >>

(***************************************************************************)
(* scripts/create-versioned-formula.rb                                     *)
(***************************************************************************)
\* create_formula, lines 96-99
RbClassName(daml_tag) ==
  <<"CantonAT">> \o Capitalize(SelectSeq(StripV(daml_tag), IsAlnum))

\* create_formula, lines 180-181
RbFormulaFilename(daml_tag) == <<"canton@">> \o StripV(daml_tag) \o <<".rb">>

\* create_formula: the values interpolated into the formula text
create_formula(info, sha256) ==
  [ filename |-> RbFormulaFilename(info.daml_tag),
    content  |-> [ class_name     |-> RbClassName(info.daml_tag),
                   url            |-> info.download_url,
                   sha256         |-> sha256,
                   version        |-> StripV(info.daml_tag),
                   canton_version |-> info.canton_version,
                   daml_tag       |-> info.daml_tag,
                   is_prerelease  |-> info.is_prerelease ] ]

TruncatedFormula ==
  [ class_name |-> <<>>, url |-> <<>>, sha256 |-> <<>>, version |-> <<>>,
    canton_version |-> <<>>, daml_tag |-> <<>>, is_prerelease |-> FALSE ]

\* fetch_release_info, lines 12-56, for a tag the API answers for
fetch_release_info(tag_with_v) ==
  LET release == ReleaseOf(tag_with_v)
      canton_asset == FindCantonAsset(release)
  IN  [ daml_tag       |-> tag_with_v,
        canton_version |-> canton_asset.name.version,
        download_url   |-> canton_asset.browser_download_url,
        is_prerelease  |-> release.prerelease ]

\* check_manifest_for_sha256, lines 190-206; Undefined stands for nil
check_manifest_for_sha256(f, daml_tag) ==
  IF f.kind = "ok" /\ TagWithV(daml_tag) \in DOMAIN f.versions
    THEN f.versions[TagWithV(daml_tag)].sha256
    ELSE Undefined

\* save_to_manifest, lines 208-228: the manifest it is about to write
save_to_manifest(f, info, sha256, now) ==
  LET m == IF f.kind = "missing"
             THEN [ versions |-> NoVersions, updated_at |-> now ]
             ELSE [ versions |-> f.versions, updated_at |-> f.updated_at ]
  IN  [ WithEntry(m, info.daml_tag,
          [ canton_version |-> info.canton_version,
            download_url   |-> info.download_url,
            sha256         |-> sha256,
            is_prerelease  |-> info.is_prerelease,
            published_at   |-> now ])
        EXCEPT !.updated_at = now ]

\* command lines of the Ruby script: a tag with or without its v
RbArgs == CantonTags \cup { StripV(TagSnapshot), TagNoAsset, <<"9">> }

WithFormula(dir, name, content) ==
  [ n \in DOMAIN dir \cup { name } |-> IF n = name THEN content ELSE dir[n] ]

\* File.write(formula_path, ...), line 272: complete, or failed leaving the
\* directory as it was or the file truncated
FormulaWrites(dir, formula) ==
  { [ ok |-> TRUE,  dir |-> WithFormula(dir, formula.filename, formula.content) ],
    [ ok |-> FALSE, dir |-> dir ],
    [ ok |-> FALSE, dir |-> WithFormula(dir, formula.filename, TruncatedFormula) ] }

\* main, lines 264-284, from create_formula on
RbWriteFormula(info, sha256, kind, download) ==
  \E w \in FormulaWrites(formulaDir, create_formula(info, sha256)) :
    /\ formulaDir' = w.dir
    /\ event' = [ kind |-> IF w.ok THEN kind ELSE "rb_error",
                  tag |-> info.daml_tag, download |-> download ]

\* what the environment does to one run of the Ruby script: the release
\* API fails; the asset download fails; File.write of the manifest fails;
\* or all of them succeed
RbOutcomes == { "api_fails", "download_fails", "write_fails", "ok" }

\* the memory of a manifest-sync process that has ended is gone
SyncForgotten ==
  /\ pc' = "idle"
  /\ limit' = 0
  /\ manifest' = NoManifest
  /\ releases' = <<>>
  /\ topReleases' = <<>>
  /\ idx' = 1
  /\ newVersions' = 0
  /\ skippedVersions' = 0
  /\ hashed' = {}
  /\ failed' = {}
  /\ exitCode' = "none"

\* main, lines 242-285: one run of the script with argument arg; v is the
\* content the asset URL serves, now the reading of Time.now
RbRun(arg, env, v, now) ==
  /\ Stopped
  /\ SyncForgotten
  /\ UNCHANGED toolVars
  /\ LET tag_with_v == TagWithV(arg)
         found == /\ env # "api_fails"
                  /\ tag_with_v \in Tags
                  /\ HasCantonAsset(ReleaseOf(tag_with_v))
     IN
     IF ~found
       THEN \* fetch_release_info raises; rescue of line 282, exit 1
            /\ event' = Ev("rb_error", tag_with_v)
            /\ UNCHANGED << file, formulaDir >>
       ELSE
         LET info == fetch_release_info(tag_with_v)
             cached == check_manifest_for_sha256(file, arg)
         IN
         IF cached # Undefined
           THEN \* line 255: use the cached SHA256
                /\ RbWriteFormula(info, cached, "rb_cached", FALSE)
                /\ UNCHANGED file
         ELSE IF env = "download_fails"
           THEN \* calculate_sha256 raises
                /\ event' = Dl("rb_error", tag_with_v)
                /\ UNCHANGED << file, formulaDir >>
         ELSE IF file.kind \in { "corrupt", "noversions" }
           THEN \* save_to_manifest raises in JSON.parse or on versions
                /\ event' = Dl("rb_error", tag_with_v)
                /\ UNCHANGED << file, formulaDir >>
         ELSE IF env = "write_fails"
           THEN \* File.write of the manifest raises
                /\ file' \in PartialWrites(file)
                /\ event' = Dl("rb_error", tag_with_v)
                /\ UNCHANGED formulaDir
         ELSE LET sha256 == calculateSha256(info.download_url, v)
              IN  /\ file' = ManifestFile(save_to_manifest(file, info, sha256, now))
                  /\ RbWriteFormula(info, sha256, "rb_hashed", TRUE)

(***************************************************************************)
(* Text: a sequence of characters.  A run of characters that holds no      *)
(* brace and is never taken apart may stand as one element.                *)
(***************************************************************************)
\* pat occurs in text at position i
MatchesAt(text, pat, i) ==
  /\ i >= 1
  /\ i + Len(pat) - 1 <= Len(text)
  /\ \A k \in 1..Len(pat) : text[i + k - 1] = pat[k]

\* the position of the leftmost occurrence of pat in text at or after from,
\* 0 when none
FirstMatch(text, pat, from) ==
  LET starts == { i \in from..Len(text) : text[i] = pat[1] }
      at == { i \in starts : MatchesAt(text, pat, i) }
  IN  IF at = {} THEN 0 ELSE CHOOSE i \in at : \A j \in at : i <= j

\* GetSubstitution of String.prototype.replace for a pattern without
\* groups: in the replacement string $$ stands for $, $& for the text
\* matched, $` for the text before the match and $' for the text after it;
\* any other $ stands for itself
RECURSIVE GetSubstitution(_, _, _, _)
GetSubstitution(rep, matched, before, after) ==
  LET i == FirstMatch(rep, << "$" >>, 1)
  IN  IF i = 0 \/ i = Len(rep) THEN rep
      ELSE LET c    == rep[i + 1]
               head == IF c = "$" THEN << "$" >>
                       ELSE IF c = "&" THEN matched
                       ELSE IF c = "`" THEN before
                       ELSE IF c = "'" THEN after
                       ELSE << "$", c >>
           IN  SubSeq(rep, 1, i - 1) \o head
               \o GetSubstitution(SubSeq(rep, i + 2, Len(rep)),
                                  matched, before, after)

\* the replacement of the occurrence of pat at position i of text
SubstitutionAt(text, pat, rep, i) ==
  GetSubstitution(rep, pat, SubSeq(text, 1, i - 1),
                  SubSeq(text, i + Len(pat), Len(text)))

\* the rest of text.replace(/pat/g, rep) from position from on
RECURSIVE ReplaceFrom(_, _, _, _)
ReplaceFrom(text, pat, rep, from) ==
  LET i == FirstMatch(text, pat, from)
  IN  IF i = 0 THEN SubSeq(text, from, Len(text))
      ELSE SubSeq(text, from, i - 1) \o SubstitutionAt(text, pat, rep, i)
           \o ReplaceFrom(text, pat, rep, i + Len(pat))

\* text.replace(/pat/g, rep): every occurrence, left to right
ReplaceAll(text, pat, rep) == ReplaceFrom(text, pat, rep, 1)

\* text.replace(/pat/i, rep), pat in lower case: the leftmost occurrence,
\* whatever its case
ReplaceFirstIgnoringCase(text, pat, rep) ==
  LET lower == [ k \in 1..Len(text) |-> Downcase(text[k]) ]
      i == FirstMatch(lower, pat, 1)
  IN  IF i = 0 THEN text
      ELSE SubSeq(text, 1, i - 1)
           \o SubstitutionAt(text, SubSeq(text, i, i + Len(pat) - 1), rep, i)
           \o SubSeq(text, i + Len(pat), Len(text))

\* text.replace(/c/g, "")
RemoveAll(text, c) == SelectSeq(text, LAMBDA x : x # c)

(***************************************************************************)
(* scripts/generate-versioned-formula.ts: the renderer                     *)
(***************************************************************************)
CLASS_SUFFIX   == <<"C","L","A","S","S","_","S","U","F","F","I","X">>
VERSION_TYPE   == <<"V","E","R","S","I","O","N","_","T","Y","P","E">>
DOWNLOAD_URL   == <<"D","O","W","N","L","O","A","D","_","U","R","L">>
SHA256         == <<"S","H","A","2","5","6">>
VERSION        == <<"V","E","R","S","I","O","N">>
CANTON_VERSION == <<"C","A","N","T","O","N","_","V","E","R","S","I","O","N">>
DAML_TAG       == <<"D","A","M","L","_","T","A","G">>
IS_PRERELEASE  == <<"I","S","_","P","R","E","R","E","L","E","A","S","E">>
RELEASE_TYPE   == <<"R","E","L","E","A","S","E","_","T","Y","P","E">>

\* the token {{NAME}}
Placeholder(name) == <<"{","{">> \o name \o <<"}","}">>

\* the characters of a download URL
UrlText(url) == << url[1], "/" >> \o url[2] \o << "/" >> \o url[3]

\* sanitizeVersionForClass, lines 35-45
sanitizeVersionForClass(version) ==
  LET cleaned == RemoveAll(RemoveAll(StripV(version), "."), "-")
  IN  ReplaceFirstIgnoringCase(cleaned,
        <<"s","n","a","p","s","h","o","t">>,
        <<"S","n","a","p","s","h","o","t">>)

\* a class suffix that depends on how the process before ended
classSuffixAfter(versionTag, isLatest) ==
  IF isLatest THEN << exitCode >>
  ELSE <<"A","T">> \o sanitizeVersionForClass(StripV(versionTag)) \o << exitCode >>

\* generateFormula, line 56
classSuffix(versionTag, isLatest) ==
  IF isLatest THEN <<>>
  ELSE <<"A","T">> \o sanitizeVersionForClass(StripV(versionTag))

\* generateFormula, line 57
versionType(versionTag, isLatest) ==
  IF isLatest THEN << "latest pre-release" >>
  ELSE << "version " >> \o StripV(versionTag)

\* generateFormula, lines 47-70: nine global replacements, one after another
generateFormula(template, versionTag, info, isLatest) ==
  LET cleanVersion == StripV(versionTag)
      t1 == ReplaceAll(template, Placeholder(CLASS_SUFFIX),
                       classSuffix(versionTag, isLatest))
      t2 == ReplaceAll(t1, Placeholder(VERSION_TYPE),
                       versionType(versionTag, isLatest))
      t3 == ReplaceAll(t2, Placeholder(DOWNLOAD_URL), UrlText(info.download_url))
      t4 == ReplaceAll(t3, Placeholder(SHA256), info.sha256)
      t5 == ReplaceAll(t4, Placeholder(VERSION), cleanVersion)
      t6 == ReplaceAll(t5, Placeholder(CANTON_VERSION), info.canton_version)
      t7 == ReplaceAll(t6, Placeholder(DAML_TAG), versionTag)
      t8 == ReplaceAll(t7, Placeholder(IS_PRERELEASE),
                       IF info.is_prerelease THEN << "Yes" >> ELSE << "No" >>)
  IN  ReplaceAll(t8, Placeholder(RELEASE_TYPE),
                 IF info.is_prerelease THEN << "pre-release" >> ELSE << "stable" >>)

\* the process has no memory of an earlier one
FreshProcess ==
  /\ limit' = 0
  /\ manifest' = NoManifest
  /\ topReleases' = <<>>
  /\ idx' = 1
  /\ newVersions' = 0
  /\ skippedVersions' = 0
  /\ hashed' = {}
  /\ failed' = {}

(***************************************************************************)
(* scripts/generate-versioned-formula.ts: the commands                     *)
(***************************************************************************)
\* files of Formula/
TemplateName == << "canton.rb.template" >>
MainName == << "canton.rb" >>

\* `canton@${cleanVersion}.rb`, lines 90-96
FormulaFilename(cleanVersion) == << "canton@" >> \o cleanVersion \o << ".rb" >>

\* the command-line flag --latest
LatestFlag == << "--latest" >>

\* the tag taken as given
RawTag(versionTag) == versionTag

\* line 74
normalizedTag(versionTag) ==
  IF StartsWithV(versionTag) THEN versionTag ELSE << "v" >> \o versionTag

\* Object.keys / Object.entries of an object with these keys: some order
KeyOrders(S) ==
  { o \in [ 1..Cardinality(S) -> S ] :
      \A i, j \in 1..Cardinality(S) : i # j => o[i] # o[j] }

\* Object.entries(manifest.versions), in key order o
Entries(vs, o) == [ i \in 1..Len(o) |-> [ tag |-> o[i], info |-> vs[o[i]] ] ]

\* a comparator that puts the oldest entry first
PublishedAscending(a, b) == a.info.published_at - b.info.published_at

\* the comparator of lines 125-129: negative when a goes first
ComparePublished(a, b) == b.info.published_at - a.info.published_at

InsertByPublished(sorted, x) ==
  LET before == { i \in 0..Len(sorted) :
                    \A j \in 1..i : ComparePublished(sorted[j], x) <= 0 }
      k == CHOOSE i \in before : \A j \in before : j <= i
  IN  SubSeq(sorted, 1, k) \o <<x>> \o SubSeq(sorted, k + 1, Len(sorted))

\* Object.entries(manifest.versions).sort(...), lines 125-129
RECURSIVE sortedVersions(_)
sortedVersions(entries) ==
  IF entries = <<>> THEN <<>>
  ELSE InsertByPublished(sortedVersions(SubSeq(entries, 1, Len(entries) - 1)),
                         entries[Len(entries)])

\* what prompt("Overwrite? (y/N): ") may return; "null" at end of input
Answers == { "y", "Y", "n", "null" }

\* response?.toLowerCase() !== 'y', line 102
Declined(response) == response = "null" \/ Downcase(response) # "y"

\* what the environment does to one generator process: the answer to the
\* prompt, should it ask, and whether writeFile, should it come to that,
\* succeeds
GenEnvs ==
  [ answer : Answers, write : { "ok" } ] \cup [ answer : { "y" }, write : { "fails" } ]

\* readFile + JSON.parse of lines 24-28 throw, or the parsed JSON has no
\* versions object and the first use of manifest.versions throws
ManifestUnusable(f) == f.kind \in { "missing", "corrupt", "noversions" }

Outcome(dir, kind, tag, exit) ==
  [ dir |-> dir, kind |-> kind, tag |-> tag, exit |-> exit ]

\* generateVersionedFormula, lines 72-118, and the catch of main, lines
\* 187-190: what one process `generate-versioned-formula.ts <versionTag>`
\* does to Formula/ and how it ends
RunVersioned(f, dir, versionTag, env) ==
  LET tag == normalizedTag(versionTag)
      outputPath == FormulaFilename(StripV(tag))
  IN  IF f.kind \in { "missing", "corrupt" } \/ TemplateName \notin DOMAIN dir
        THEN Outcome(dir, "load_error", tag, "1")
      ELSE IF f.kind = "noversions"
        THEN Outcome(dir, "type_error", tag, "1")
      ELSE IF tag \notin DOMAIN f.versions
        THEN Outcome(dir, "not_found", tag, "1")
      ELSE IF outputPath \in DOMAIN dir /\ Declined(env.answer)
        THEN Outcome(dir, "declined", tag, "0")
      ELSE IF env.write = "fails"
        THEN Outcome(dir, "write_error", tag, "1")
      ELSE Outcome(WithFormula(dir, outputPath,
                     generateFormula(dir[TemplateName], tag, f.versions[tag], FALSE)),
                   "written", tag, "0")

\* lines 98-101: the process reaches the prompt
Prompts(f, dir, versionTag) ==
  /\ f.kind = "ok"
  /\ TemplateName \in DOMAIN dir
  /\ normalizedTag(versionTag) \in DOMAIN f.versions
  /\ FormulaFilename(StripV(normalizedTag(versionTag))) \in DOMAIN dir

\* generateLatestFormula, lines 120-146, and the catch of main: what one
\* process `generate-versioned-formula.ts --latest` does; o is the key order
\* of the manifest
RunLatest(f, dir, o, env) ==
  IF f.kind \in { "missing", "corrupt" } \/ TemplateName \notin DOMAIN dir
    THEN Outcome(dir, "load_error", NoTag, "1")
  ELSE IF f.kind = "noversions"
    THEN Outcome(dir, "type_error", NoTag, "1")
  ELSE IF DOMAIN f.versions = {}
    THEN Outcome(dir, "no_versions", NoTag, "1")
  ELSE LET latest == sortedVersions(Entries(f.versions, o))[1]
       IN  IF env.write = "fails"
             THEN Outcome(dir, "write_error", latest.tag, "1")
           ELSE Outcome(WithFormula(dir, MainName,
                          generateFormula(dir[TemplateName], latest.tag,
                                          latest.info, TRUE)),
                        "written", latest.tag, "0")

\* main, lines 152-164: no argument
GenUsage ==
  /\ Stopped
  /\ FreshProcess
  /\ releases' = <<>>
  /\ pc' = "done"
  /\ exitCode' = "1"
  /\ event' = Ev("gen_usage", NoTag)
  /\ newVersionTags' = <<>>
  /\ generated' = <<>>
  /\ invoked' = <<>>
  /\ overwrite' = NotAsked
  /\ versions' = <<>>
  /\ UNCHANGED << file, formulaDir, count, errors, reported, apiResponse, restVars >>

\* main, lines 184-186: one process generate-versioned-formula.ts <tag>
GenOne(versionTag, env) ==
  /\ Stopped
  /\ FreshProcess
  /\ releases' = <<>>
  /\ LET r == RunVersioned(file, formulaDir, versionTag, env)
     IN  /\ formulaDir' = r.dir
         /\ exitCode' = r.exit
         /\ event' = Ev("one_" \o r.kind, r.tag)
  /\ overwrite' = IF Prompts(file, formulaDir, versionTag) THEN env.answer
                ELSE NotAsked
  /\ pc' = "done"
  /\ newVersionTags' = <<>>
  /\ generated' = <<>>
  /\ invoked' = << versionTag >>
  /\ versions' = <<>>
  /\ UNCHANGED << file, count, errors, reported, apiResponse, restVars >>

\* main, lines 167-168: one process generate-versioned-formula.ts --latest
GenLatest(o, env) ==
  /\ Stopped
  /\ FreshProcess
  /\ releases' = <<>>
  /\ LET r == RunLatest(file, formulaDir, o, env)
     IN  /\ formulaDir' = r.dir
         /\ exitCode' = r.exit
         /\ event' = Ev("latest_" \o r.kind, r.tag)
  /\ pc' = "done"
  /\ newVersionTags' = <<>>
  /\ generated' = <<>>
  /\ invoked' = << LatestFlag >>
  /\ overwrite' = NotAsked
  /\ versions' = <<>>
  /\ UNCHANGED << file, count, errors, reported, apiResponse, restVars >>

\* main, lines 169-174: --all reads the manifest and takes its keys; a
\* manifest that cannot be used ends the process in the catch of line 187
GenAllStart(o) ==
  /\ Stopped
  /\ FreshProcess
  /\ releases' = <<>>
  /\ newVersionTags' = <<>>
  /\ generated' = <<>>
  /\ invoked' = <<>>
  /\ overwrite' = NotAsked
  /\ IF ManifestUnusable(file)
       THEN /\ versions' = <<>>
            /\ pc' = "done"
            /\ exitCode' = "1"
            /\ event' = Ev("all_load_error", NoTag)
       ELSE /\ versions' = o
            /\ pc' = "genall"
            /\ exitCode' = "none"
            /\ event' = Ev("all_start", NoTag)
  /\ UNCHANGED << file, formulaDir, count, errors, reported, apiResponse, restVars >>

\* main, lines 176-178: generateVersionedFormula(version) inside the --all
\* process; what it throws ends the process with code 1
GenAllVersion(env) ==
  /\ pc = "genall"
  /\ idx <= Len(versions)
  /\ LET r == RunVersioned(file, formulaDir, versions[idx], env)
     IN  /\ formulaDir' = r.dir
         /\ event' = Ev("all_" \o r.kind, r.tag)
         /\ IF r.exit = "1"
              THEN pc' = "done" /\ exitCode' = "1"
              ELSE UNCHANGED << pc, exitCode >>
  /\ overwrite' = IF Prompts(file, formulaDir, versions[idx]) THEN env.answer
                  ELSE NotAsked
  /\ idx' = idx + 1
  /\ UNCHANGED << file, newVersionTags, generated, invoked, count, versions,
                  errors, reported, apiResponse, restVars, syncVars >>

\* main, lines 180-183: generateLatestFormula() at the end of --all
GenAllLatest(o, env) ==
  /\ pc = "genall"
  /\ idx > Len(versions)
  /\ LET r == RunLatest(file, formulaDir, o, env)
     IN  /\ formulaDir' = r.dir
         /\ exitCode' = r.exit
         /\ event' = Ev("all_latest_" \o r.kind, r.tag)
  /\ overwrite' = NotAsked
  /\ pc' = "done"
  /\ UNCHANGED << file, idx, newVersionTags, generated, invoked, count,
                  versions, errors, reported, apiResponse, restVars, syncVars >>

(***************************************************************************)
(* scripts/generate-formulas-for-new-releases.ts                           *)
(***************************************************************************)
\* getExistingFormulas, lines 33-48: the versions of the files named
\* canton@<version>.rb
getExistingFormulas(dir) ==
  { SubSeq(n, 2, Len(n) - 1) :
      n \in { m \in DOMAIN dir :
                Len(m) >= 3 /\ m[1] = "canton@" /\ m[Len(m)] = ".rb" } }

\* lines 63-68: the tags, in key order, without a formula file
WithoutFormula(o, dir) ==
  SelectSeq(o, LAMBDA versionTag : StripV(versionTag) \notin getExistingFormulas(dir))

\* lines 53-76: load the manifest, list Formula/, find the new versions;
\* with none, return at line 72 and exit 0 at line 113
AllNewStart(o) ==
  /\ Stopped
  /\ FreshProcess
  /\ releases' = <<>>
  /\ generated' = <<>>
  /\ invoked' = <<>>
  /\ IF ManifestUnusable(file)
       THEN /\ newVersionTags' = <<>>
            /\ pc' = "done"
            /\ exitCode' = "1"
            /\ event' = Ev("allnew_load_error", NoTag)
       ELSE /\ newVersionTags' = WithoutFormula(o, formulaDir)
            /\ IF newVersionTags' = <<>>
                 THEN /\ pc' = "done"
                      /\ exitCode' = "0"
                      /\ event' = Ev("allnew_none", NoTag)
                 ELSE /\ pc' = "allnew"
                      /\ exitCode' = "none"
                      /\ event' = Ev("allnew_found", NoTag)
  /\ overwrite' = NotAsked
  /\ versions' = <<>>
  /\ UNCHANGED << file, formulaDir, count, errors, reported, apiResponse, restVars >>

\* lines 81-89: one turn of the loop, a subprocess for newVersions[idx];
\* a subprocess that exits with a code other than 0 makes $ throw, the
\* catch logs it
AllNewGenerate(env) ==
  /\ pc = "allnew"
  /\ idx <= Len(newVersionTags)
  /\ LET version == newVersionTags[idx]
         r == RunVersioned(file, formulaDir, version, env)
     IN  /\ formulaDir' = r.dir
         /\ invoked' = Append(invoked, version)
         /\ generated' = IF r.exit = "0" THEN Append(generated, version)
                         ELSE generated
         /\ event' = Ev("allnew_" \o r.kind, version)
  /\ overwrite' = IF Prompts(file, formulaDir, newVersionTags[idx])
                  THEN env.answer ELSE NotAsked
  /\ idx' = idx + 1
  /\ UNCHANGED << file, pc, exitCode, newVersionTags, count, versions, errors, reported,
                  apiResponse, restVars, syncVars >>

\* lines 91-104 and 110-117: the subprocess for --latest; when it fails $
\* throws and main exits with 1, otherwise with 0
AllNewLatest(o, env) ==
  /\ pc = "allnew"
  /\ idx > Len(newVersionTags)
  /\ LET r == RunLatest(file, formulaDir, o, env)
     IN  /\ formulaDir' = r.dir
         /\ exitCode' = r.exit
         /\ event' = Ev("allnew_latest_" \o r.kind, r.tag)
  /\ invoked' = Append(invoked, LatestFlag)
  /\ pc' = "done"
  /\ overwrite' = NotAsked
  /\ UNCHANGED << file, idx, newVersionTags, generated, count, versions, errors, reported,
                  apiResponse, restVars, syncVars >>

(***************************************************************************)
(* The worlds the formula generators run in.                               *)
(***************************************************************************)
\* tags of manifest entries beyond those of GitHubReleases: the word
\* snapshot in capitals, build metadata, no leading v, the characters of a
\* replacement pattern, and a second v
TagUpper == <<"v","3",".","5","-","S","N","A","P","S","H","O","T",".","2">>
TagBuild == <<"v","3",".","4",".","9","+","1">>
TagPlain == <<"2",".","1","0",".","3">>
TagDollar == <<"v","1",".","0","$","&">>
TagDoubleV == <<"v","v","1",".","0">>

\* the entry the manifest sync writes for a release with this tag
GenEntry(tag, pre, at) ==
  LET url == << "download", tag, StripV(tag) >>
  IN  [ canton_version |-> StripV(tag),
        download_url   |-> url,
        sha256         |-> calculateSha256(url, MaxContent),
        is_prerelease  |-> pre,
        published_at   |-> at ]

\* Formula/canton.rb.template as the commands of the tap use it
TemplateSmall ==
  << "class Canton" >> \o Placeholder(CLASS_SUFFIX) \o << " < Formula version " >>
  \o Placeholder(VERSION) \o << " sha256 " >> \o Placeholder(SHA256)

\* a template with each of the nine placeholders, two of them twice, and
\* a token the renderer does not know
TemplateFull ==
  << "class Canton" >> \o Placeholder(CLASS_SUFFIX)
  \o << " desc " >> \o Placeholder(VERSION_TYPE)
  \o << " url " >> \o Placeholder(DOWNLOAD_URL)
  \o << " sha256 " >> \o Placeholder(SHA256)
  \o << " version " >> \o Placeholder(VERSION)
  \o << " canton " >> \o Placeholder(CANTON_VERSION)
  \o << " tag " >> \o Placeholder(DAML_TAG)
  \o << " prerelease " >> \o Placeholder(IS_PRERELEASE)
  \o << " type " >> \o Placeholder(RELEASE_TYPE)
  \o << " homepage " >> \o Placeholder(<<"H","O","M","E","P","A","G","E">>)
  \o << " again " >> \o Placeholder(VERSION) \o Placeholder(DAML_TAG)

\* the template `class {{CLASS_SUFFIX}}`
TemplateClass == << "class " >> \o Placeholder(CLASS_SUFFIX)

\* a template of tokens that are almost placeholders: a brace short, a
\* brace too many, lower case, padded
TemplateOdd ==
  <<"{","{">> \o VERSION \o <<"}">> \o << " " >>
  \o <<"{">> \o VERSION \o <<"}","}">> \o << " " >>
  \o <<"{","{","{">> \o VERSION \o <<"}","}","}">> \o << " " >>
  \o Placeholder(<<"v","e","r","s","i","o","n">>) \o << " " >>
  \o Placeholder(<<" ">> \o SHA256 \o <<" ">>) \o << " " >>
  \o Placeholder(VERSION \o <<"_">>) \o Placeholder(DAML_TAG)

\* a formula file written before the run
OldFormula == << "class CantonOld < Formula" >>

\* arguments of generate-versioned-formula.ts: tags, a tag without its v,
\* a tag no manifest holds
GenArgs ==
  { TagStable, TagSnapshot, TagUpper, TagBuild, TagPlain, TagDollar,
    TagDoubleV, StripV(TagSnapshot), TagNoAsset }

\* the manifests of the tap: unreadable, or with entries for some of the
\* canton releases
TapFiles ==
  { MissingFile, CorruptFile, ShapelessFile } \cup
  { [ kind |-> "ok", updated_at |-> Epoch,
      versions |-> [ t \in S |->
        GenEntry(t, ReleaseOf(t).prerelease, ReleaseOf(t).published_at) ] ] :
    S \in SUBSET CantonTags }

\* Formula/ of the tap: with or without the template, the main formula and
\* the formula of some canton releases
TapDirs ==
  { [ n \in names |-> IF n = TemplateName THEN TemplateSmall ELSE OldFormula ] :
      names \in SUBSET ({ TemplateName, MainName }
                        \cup { FormulaFilename(StripV(t)) : t \in CantonTags }) }

\* manifests with one entry, of any tag, prerelease or stable
OneEntryFiles ==
  { [ kind |-> "ok", updated_at |-> Epoch,
      versions |-> [ t \in { tag } |-> GenEntry(tag, pre, at) ] ] :
    tag \in { TagStable, TagSnapshot, TagUpper, TagBuild, TagPlain, TagDollar,
              TagDoubleV },
    pre \in BOOLEAN, at \in { Epoch - 1 } }

\* Formula/ holding nothing but a template
TemplateDirs ==
  { [ n \in { TemplateName } |-> t ] :
      t \in { TemplateFull, TemplateClass, TemplateOdd } }

(***************************************************************************)
(* canton-versions.ts, command "all"                                       *)
(***************************************************************************)
\* the releases a listing may hold: any tag, as prerelease or stable,
\* published at any time, with its canton asset; and one without
ListedReleases ==
  { [ tag_name |-> t, prerelease |-> p, published_at |-> at,
      assets |-> << CantonAsset(t, StripV(t)) >> ] :
      t \in Tags, p \in BOOLEAN, at \in 1..MaxPublished }
  \cup { ReleaseOf(TagNoAsset) }

\* the responses of the releases endpoint: up to MaxListed releases with
\* different tags, in any order
Listings ==
  { s \in UNION { [ 1..n -> ListedReleases ] : n \in 0..MaxListed } :
      \A i, j \in 1..Len(s) : i # j => s[i].tag_name # s[j].tag_name }

\* command "all": getAllCantonVersions().then(print); the API answers
ListAll ==
  /\ pc = "idle"
  /\ FreshProcess
  /\ releases' = getAllCantonVersions(apiResponse)
  /\ pc' = "done"
  /\ exitCode' = "0"
  /\ event' = Ev("listed", NoTag)
  /\ UNCHANGED << file, formulaDir, toolVars >>

\* command "all": the fetch fails, .catch(console.error) logs it
ListFail ==
  /\ pc = "idle"
  /\ FreshProcess
  /\ releases' = <<>>
  /\ pc' = "done"
  /\ exitCode' = "0"
  /\ event' = Ev("fetch_failed", NoTag)
  /\ UNCHANGED << file, formulaDir, toolVars >>

(***************************************************************************)
(* update.sh                                                               *)
(***************************************************************************)
\* lines 22-23: the releases with a canton asset, in the order of the API,
\* the first five
ShTop == 5

ALL_RELEASES(listed) ==
  LET kept == SelectSeq(listed, HasCantonAsset)
  IN  Slice([ i \in 1..Len(kept) |-> ToCantonRelease(kept[i]) ], ShTop)

\* Formula/canton.rb as update.sh rewrites it: the url, sha256 and version
\* lines; literal says whether they are string literals, which the
\* patterns of lines 94-96 match
StaticFormula(url, sha256, version, literal) ==
  [ url |-> url, sha256 |-> sha256, version |-> version, literal |-> literal ]

\* the three sed commands of lines 94-96
SedFormula(content, release, sha256) ==
  IF content.literal
    THEN StaticFormula(release.downloadUrl, sha256, release.cantonVersion, TRUE)
    ELSE content

\* what the environment does to one turn of the loop: the download, git
\* tag, git push and gh release create succeed or fail
ShEnvs == { "ok", "download_fails", "tag_fails", "push_fails", "release_fails" }

\* lines 12-37: one process update.sh starts; the list is fetched, the
\* tags are listed; with no release the script ends, lines 25-28
ShStart(existing, token) ==
  /\ Stopped
  /\ FreshProcess
  /\ releases' = ALL_RELEASES(apiResponse)
  /\ EXISTING_TAGS' = existing
  /\ PROCESSED_COUNT' = 0
  /\ PROCESSED_VERSIONS' = <<>>
  /\ GITHUB_TOKEN' = token
  /\ IF releases' = <<>>
       THEN pc' = "done" /\ exitCode' = "0" /\ event' = Ev("sh_none", NoTag)
       ELSE pc' = "sh_loop" /\ exitCode' = "none" /\ event' = Ev("sh_start", NoTag)
  /\ UNCHANGED << file, formulaDir, newVersionTags, generated, invoked, count,
                  versions, errors, reported, overwrite, apiResponse, other,
                  inFlight, githubOutput, ciOutput, loadVars >>

\* lines 40-160: one turn of the loop, for releases[idx]; set -e ends the
\* script when the download or sed fails, a failing git tag, git push or gh
\* release create goes on with the next release (continue, lines 113, 118,
\* 150).  grep of line 54 looks for the version in the words of
\* PROCESSED_VERSIONS
ShTurn(env, v) ==
  /\ pc = "sh_loop"
  /\ idx <= Len(releases)
  /\ LET release == releases[idx]
         version == release.cantonVersion
         sha256  == calculateSha256(release.downloadUrl, v)
         Seen    == \E k \in 1..Len(PROCESSED_VERSIONS) :
                      PROCESSED_VERSIONS[k] = version
         Continue(kind, dl) ==
           /\ idx' = idx + 1
           /\ event' = [ kind |-> kind, tag |-> release.damlTag, download |-> dl ]
           /\ UNCHANGED << pc, exitCode >>
         Exit(kind, dl) ==
           /\ idx' = idx
           /\ event' = [ kind |-> kind, tag |-> release.damlTag, download |-> dl ]
           /\ pc' = "done"
           /\ exitCode' = "1"
     IN
     IF version \in EXISTING_TAGS \/ Seen
       THEN \* lines 48-57
            /\ Continue("sh_skipped", FALSE)
            /\ UNCHANGED << formulaDir, PROCESSED_COUNT, PROCESSED_VERSIONS >>
     ELSE
       /\ PROCESSED_VERSIONS' = Append(PROCESSED_VERSIONS, version)
       /\ IF env = "download_fails"
            THEN \* lines 66-70
                 /\ Exit("sh_download_failed", TRUE)
                 /\ UNCHANGED << formulaDir, PROCESSED_COUNT >>
          ELSE IF PROCESSED_COUNT = 0 /\ MainName \notin DOMAIN formulaDir
            THEN \* lines 94-96: sed finds no file
                 /\ Exit("sh_sed_failed", TRUE)
                 /\ UNCHANGED << formulaDir, PROCESSED_COUNT >>
          ELSE
            /\ formulaDir' =
                 IF PROCESSED_COUNT = 0
                   THEN WithFormula(formulaDir, MainName,
                          SedFormula(formulaDir[MainName], release, sha256))
                   ELSE formulaDir
            /\ IF GITHUB_TOKEN /\ env = "tag_fails"
                 THEN Continue("sh_tag_failed", TRUE) /\ UNCHANGED PROCESSED_COUNT
               ELSE IF GITHUB_TOKEN /\ env = "push_fails"
                 THEN Continue("sh_push_failed", TRUE) /\ UNCHANGED PROCESSED_COUNT
               ELSE IF GITHUB_TOKEN /\ env = "release_fails"
                 THEN Continue("sh_release_failed", TRUE) /\ UNCHANGED PROCESSED_COUNT
               ELSE \* line 160
                    /\ Continue("sh_processed", TRUE)
                    /\ PROCESSED_COUNT' = PROCESSED_COUNT + 1
  /\ UNCHANGED << file, limit, manifest, releases, topReleases, newVersions,
                  skippedVersions, hashed, failed, newVersionTags, generated,
                  invoked, count, versions, errors, reported, overwrite,
                  apiResponse, other, inFlight, githubOutput, ciOutput, loadVars,
                  EXISTING_TAGS, GITHUB_TOKEN >>

\* lines 163-196: after the loop; in CI the formula is committed and pushed
ShFinish(push) ==
  /\ pc = "sh_loop"
  /\ idx > Len(releases)
  /\ pc' = "done"
  /\ exitCode' = IF GITHUB_TOKEN /\ PROCESSED_COUNT > 0 /\ push = "fails"
                   THEN "1" ELSE "0"
  /\ event' = Ev("sh_finished", NoTag)
  /\ UNCHANGED << file, formulaDir, limit, manifest, releases, topReleases, idx,
                  newVersions, skippedVersions, hashed, failed, newVersionTags,
                  generated, invoked, count, versions, errors, reported,
                  overwrite, apiResponse, other, inFlight, githubOutput,
                  ciOutput, loadVars, shVars >>

\* Formula/ before a run of update.sh: no canton.rb, one with literal url,
\* sha256 and version lines, one that computes them
ShDirs ==
  { NoVersions,
    [ n \in { MainName } |-> StaticFormula(<<"old">>, <<"old">>, <<"old">>, TRUE) ],
    [ n \in { MainName } |-> StaticFormula(<<"old">>, <<"old">>, <<"old">>, FALSE) ] }

(***************************************************************************)
(* Formula/canton.rb, the main formula                                     *)
(***************************************************************************)
\* the record of lines 107-113
Hardcoded ==
  [ daml_tag       |-> << "v3.4.0-snapshot.20250918.0" >>,
    canton_version |-> << "3.4.0-snapshot.20250916.16914.0.vab38472a" >>,
    download_url   |-> << "download", << "v3.4.0-snapshot.20250918.0" >>,
                          << "3.4.0-snapshot.20250916.16914.0.vab38472a" >> >>,
    sha256         |-> << "e073d9f05040c963e392ff2e19445ca3daa95e3faa57877bd4e08ea6ad74001f" >>,
    is_prerelease  |-> TRUE ]

\* the absence of a record, nil
Nil == [ Hardcoded EXCEPT !.daml_tag = <<>> ]

\* load_manifest, lines 10-19: the parsed file, nil when there is no file
\* or JSON.parse raises; latest_from_manifest, lines 22-44: the entry
\* published last, nil without versions; o is the order of the keys
latest_from_manifest(f, o) ==
  IF f.kind # "ok" \/ DOMAIN f.versions = {} THEN Nil
  ELSE LET latest_entry == sortedVersions(Entries(f.versions, o))[1]
           info == latest_entry.info
       IN  [ daml_tag       |-> latest_entry.tag,
             canton_version |-> info.canton_version,
             download_url   |-> info.download_url,
             sha256         |-> info.sha256,
             is_prerelease  |-> info.is_prerelease ]

\* releases.find, lines 59-72: the first prerelease with a canton asset,
\* else the first release with one; 0 when there is none
FoundRelease(listed) ==
  LET pre == { i \in 1..Len(listed) :
                 listed[i].prerelease /\ HasCantonAsset(listed[i]) }
      any == { i \in 1..Len(listed) : HasCantonAsset(listed[i]) }
      First(S) == CHOOSE i \in S : \A j \in S : i <= j
  IN  IF pre # {} THEN First(pre) ELSE IF any # {} THEN First(any) ELSE 0

\* fetch_latest_prerelease, lines 47-115: code is the status of the API
\* call ("error" when the call or JSON.parse raises), listed its releases
fetch_latest_prerelease(code, listed, f, o) ==
  IF code = "200" /\ FoundRelease(listed) # 0
    THEN LET prerelease == listed[FoundRelease(listed)]
             c == ToCantonRelease(prerelease)
             tag == prerelease.tag_name
         IN  [ daml_tag       |-> tag,
               canton_version |-> c.cantonVersion,
               download_url   |-> c.downloadUrl,
               sha256         |-> IF f.kind = "ok" /\ tag \in DOMAIN f.versions
                                    THEN f.versions[tag].sha256
                                    ELSE Undefined,
               is_prerelease  |-> prerelease.prerelease ]
  ELSE IF latest_from_manifest(f, o) # Nil
    THEN latest_from_manifest(f, o)
  ELSE Hardcoded

\* what the API call may end with
ResponseCodes == { "200", "403", "error" }

\* what ENV["CANTON_VERSION"] may hold: nothing, or a version
CantonVersionEnvs == { Undefined, VerStable, VerSnapshot }

\* line 118: brew loads the formula; nothing in the file reads
\* ENV["CANTON_VERSION"]
FormulaLoad(code, o, env) ==
  /\ Stopped
  /\ FreshProcess
  /\ releases' = <<>>
  /\ mainLatest' = fetch_latest_prerelease(code, apiResponse, file, o)
  /\ responseCode' = code
  /\ envCantonVersion' = env
  /\ pc' = "done"
  /\ exitCode' = "0"
  /\ event' = Ev("formula_loaded", mainLatest'.daml_tag)
  /\ UNCHANGED << file, formulaDir, newVersionTags, generated, invoked, count,
                  versions, errors, reported, overwrite, apiResponse, other,
                  inFlight, githubOutput, ciOutput, shVars >>

(***************************************************************************)
(* scripts/update-main-formula-sha256.ts                                   *)
(***************************************************************************)
\* the words the fallback block of Formula/canton.rb starts with
Marker == "# Last resort hardcoded fallback"

\* the first position after from where text holds c, 0 when none
FirstAfter(text, c, from) ==
  LET at == { i \in (from + 1)..Len(text) : text[i] = c }
  IN  IF at = {} THEN 0 ELSE CHOOSE i \in at : \A j \in at : i <= j

\* a pattern that takes the marker alone for the block
MarkerMatch(text) ==
  LET m == FirstAfter(text, Marker, 0)
  IN  [ found |-> m # 0, from |-> m, to |-> m ]

\* formulaContent.match(fallbackPattern), lines 46-47: the leftmost marker,
\* as little as possible up to a {, as little as possible up to a }
fallbackMatch(text) ==
  LET m == FirstAfter(text, Marker, 0)
      o == IF m = 0 THEN 0 ELSE FirstAfter(text, "{", m)
      c == IF o = 0 THEN 0 ELSE FirstAfter(text, "}", o)
  IN  [ found |-> c # 0, from |-> m, to |-> c ]

\* lines 51-52: the white space between a line break and a { of the match,
\* six spaces when the match holds none
indentOf(matched) ==
  LET IsSpace(c) == c \in { " ", "\n" }
      at == { i \in 1..Len(matched) :
                /\ matched[i] = "\n"
                /\ \E j \in (i + 1)..Len(matched) :
                     /\ matched[j] = "{"
                     /\ \A k \in (i + 1)..(j - 1) : IsSpace(matched[k]) }
  IN  IF at = {} THEN << " ", " ", " ", " ", " ", " " >>
      ELSE LET i == CHOOSE x \in at : \A y \in at : x <= y
               j == FirstAfter(matched, "{", i)
           IN  SubSeq(matched, i + 1, j - 1)

\* newFallback, lines 54-62
newFallback(indent, tag, info) ==
  << Marker, " (should be kept in sync via updates)", "\n" >>
  \o indent \o << "# Auto-updated by GitHub Actions - DO NOT MODIFY MANUALLY", "\n" >>
  \o indent \o << "{", "\n" >>
  \o indent \o << "  daml_tag: ", "\"" >> \o tag \o << "\"", ",", "\n" >>
  \o indent \o << "  canton_version: ", "\"" >> \o info.canton_version
         \o << "\"", ",", "\n" >>
  \o indent \o << "  download_url: ", "\"" >> \o UrlText(info.download_url)
         \o << "\"", ",", "\n" >>
  \o indent \o << "  sha256: ", "\"" >> \o info.sha256 \o << "\"", ",", "\n" >>
  \o indent \o << "  is_prerelease: ",
                  IF info.is_prerelease THEN "true" ELSE "false", "\n" >>
  \o indent \o << "}" >>

\* formulaContent.replace(fallbackPattern, newFallback), line 64: the match
\* m replaced, the replacement read as a replacement pattern
Rewritten(text, m, tag, info) ==
  LET matched == SubSeq(text, m.from, m.to)
      before  == SubSeq(text, 1, m.from - 1)
      after   == SubSeq(text, m.to + 1, Len(text))
  IN  before
      \o GetSubstitution(newFallback(indentOf(matched), tag, info),
                         matched, before, after)
      \o after

\* the lines of line 78, each as key and value
OutputLines(tag, info) ==
  << << "formula_updated", << "true" >> >>,
     << "tag", tag >>,
     << "sha256", info.sha256 >>,
     << "canton_version", info.canton_version >> >>

\* what the environment does to one update process: whether GITHUB_OUTPUT
\* is set, and whether the two writeFile calls succeed
UpdateEnvs ==
  [ set : BOOLEAN, write : { "ok" }, append : { "ok", "fails" } ]
  \cup [ set : BOOLEAN, write : { "fails" }, append : { "ok" } ]

\* updateMainFormula, lines 14-87, and the catch of lines 90-93: what one
\* process does to Formula/canton.rb and to the CI-output file, and how it
\* ends; o is the key order of the manifest
RunUpdate(f, dir, out, o, env) ==
  LET End(d, lines, kind, tag, exit) ==
        [ dir |-> d, out |-> lines, kind |-> kind, tag |-> tag, exit |-> exit ]
  IN
  IF ManifestUnusable(f)
    THEN End(dir, out, "load_error", NoTag, "1")
  ELSE IF DOMAIN f.versions = {}
    THEN End(dir, out, "no_versions", NoTag, "1")
  ELSE
    LET latest == sortedVersions(Entries(f.versions, o))[1]
        tag    == latest.tag
        info   == latest.info
    IN
    IF MainName \notin DOMAIN dir
      THEN End(dir, out, "read_error", tag, "1")
    ELSE
      LET m == fallbackMatch(dir[MainName])
      IN
      IF ~m.found
        THEN End(dir, out, "not_found", tag, "1")
      ELSE IF env.write = "fails"
        THEN End(dir, out, "write_error", tag, "1")
      ELSE
        LET written == WithFormula(dir, MainName,
                                   Rewritten(dir[MainName], m, tag, info))
        IN
        IF info.sha256 = Undefined
          THEN \* line 72: substring of undefined throws
               End(written, out, "type_error", tag, "1")
        ELSE IF ~env.set
          THEN End(written, out, "updated", tag, "0")
        ELSE IF env.append = "fails"
          THEN End(written, out, "append_error", tag, "1")
        ELSE End(written, out \o OutputLines(tag, info), "reported", tag, "0")

\* one process update-main-formula-sha256.ts
UpdateMain(o, env) ==
  /\ Stopped
  /\ FreshProcess
  /\ releases' = <<>>
  /\ LET r == RunUpdate(file, formulaDir, ciOutput, o, env)
     IN  /\ formulaDir' = r.dir
         /\ ciOutput' = r.out
         /\ exitCode' = r.exit
         /\ event' = Ev("update_" \o r.kind, r.tag)
  /\ githubOutput' = env.set
  /\ pc' = "done"
  /\ UNCHANGED << file, newVersionTags, generated, invoked, count, versions,
                  errors, reported, overwrite, apiResponse, other, inFlight,
                  loadVars, shVars >>

\* Formula/canton.rb as it may be found: without the marker, with the
\* block, with the block on the marker's line, with the marker and no
\* braces, with an open brace only, with braces before the marker only
MainFormulas ==
  { << "class CantonOld < Formula" >>,
    << "class Canton < Formula", "\n", " ", " ", Marker, " (old)", "\n", " ", " ",
       "{", " daml_tag: old ", "}", "\n", "end" >>,
    << "class Canton < Formula ", Marker, " ", "{", "{", "}", "}", " end" >>,
    << "class Canton < Formula ", Marker, " end" >>,
    << Marker, "\n", "{", " daml_tag: old" >>,
    << "{", "}", " ", Marker >> }

\* Formula/ with or without canton.rb
MainDirs ==
  { NoVersions } \cup { [ n \in { MainName } |-> t ] : t \in MainFormulas }

\* getCantonVersionsWithHashes(n), lines 201-209: the list arrives and is
\* sliced; topReleases.map starts one async callback per release, and each
\* runs as far as the await fetch of calculateSha256 (line 181): every
\* download is issued before Promise.all is awaited
HashesStart(n) ==
  /\ Stopped
  /\ limit' = 0
  /\ manifest' = NoManifest
  /\ idx' = 1
  /\ newVersions' = 0
  /\ skippedVersions' = 0
  /\ releases' = getAllCantonVersions(apiResponse)
  /\ topReleases' = Slice(releases', n)
  /\ inFlight' = { topReleases'[i].damlTag : i \in 1..Len(topReleases') }
  /\ hashed' = {}
  /\ failed' = {}
  /\ IF inFlight' = {}
       THEN pc' = "done" /\ exitCode' = "0"
       ELSE pc' = "hashes" /\ exitCode' = "none"
  /\ event' = Ev("hashes_started", NoTag)
  /\ UNCHANGED << file, formulaDir, newVersionTags, generated, invoked, count,
                  versions, errors, reported, overwrite, apiResponse, other,
                  githubOutput, ciOutput, loadVars, shVars >>

\* lines 181-195: one of the downloads ends and its digest is calculated;
\* with the last one Promise.all resolves, lines 208-215
HashArrives(t) ==
  /\ pc = "hashes"
  /\ t \in inFlight
  /\ inFlight' = inFlight \ { t }
  /\ hashed' = hashed \cup { t }
  /\ IF inFlight' = {}
       THEN pc' = "done" /\ exitCode' = (IF failed = {} THEN "0" ELSE "1")
       ELSE UNCHANGED << pc, exitCode >>
  /\ event' = Dl("hash_arrived", t)
  /\ UNCHANGED << file, formulaDir, limit, manifest, releases, topReleases, idx,
                  newVersions, skippedVersions, failed, newVersionTags, generated,
                  invoked, count, versions, errors, reported, overwrite,
                  apiResponse, other, githubOutput, ciOutput, loadVars, shVars >>

\* lines 182-186: one of the downloads fails, calculateSha256 throws and
\* Promise.all rejects; the other downloads go on
HashRejects(t) ==
  /\ pc = "hashes"
  /\ t \in inFlight
  /\ inFlight' = inFlight \ { t }
  /\ failed' = failed \cup { t }
  /\ IF inFlight' = {}
       THEN pc' = "done" /\ exitCode' = "1"
       ELSE UNCHANGED << pc, exitCode >>
  /\ event' = Dl("hash_rejected", t)
  /\ UNCHANGED << file, formulaDir, limit, manifest, releases, topReleases, idx,
                  newVersions, skippedVersions, hashed, newVersionTags, generated,
                  invoked, count, versions, errors, reported, overwrite,
                  apiResponse, other, githubOutput, ciOutput, loadVars, shVars >>

(***************************************************************************)
(* Specification.                                                          *)
(***************************************************************************)
Next ==
  \/ \E argv \in LimitArgs : SyncStart(argv)
  \/ \E now \in Clock : SyncLoad(now)
  \/ \E response \in Responses : SyncFetch(response)
  \/ SyncFetchFail
  \/ SyncSkip
  \/ \E v \in ContentVersions : SyncHash(v)
  \/ SyncHashFail
  \/ \E now \in Clock : SyncSave(now)
  \/ \E now \in Clock : SyncSaveFail(now)
  \/ SyncFinish
  \/ \E now \in Clock : SyncInterrupt(now)

\* manifest-sync runs, one after another
Spec == Init /\ [][Next]_vars

\* two manifest-sync processes at a time, each started once, in which
\* nothing fails; the API answers both with the same list
NextTwo ==
  \/ \E argv \in LimitArgs : pc = "idle" /\ SyncStart(argv)
  \/ \E now \in Clock : SyncLoad(now)
  \/ SyncFetch(apiResponse)
  \/ SyncSkip
  \/ \E v \in ContentVersions : SyncHash(v)
  \/ \E now \in Clock : SyncSave(now)
  \/ SyncFinish
  \/ Switch

\* ... starting without a manifest file
InitTwo ==
  /\ file = MissingFile
  /\ formulaDir = NoVersions
  /\ apiResponse \in Responses
  /\ NothingRan

SpecTwo == InitTwo /\ [][NextTwo]_vars

\* manifest-sync runs and create-versioned-formula runs, one after another
NextRuns ==
  \/ Next
  \/ \E arg \in RbArgs, env \in RbOutcomes, v \in ContentVersions,
        now \in Clock : RbRun(arg, env, v, now)

SpecRuns == Init /\ [][NextRuns]_vars

\* a run of canton-versions.ts all, for every listing
InitList ==
  /\ file = MissingFile
  /\ formulaDir = NoVersions
  /\ apiResponse \in Listings
  /\ NothingRan

NextList ==
  \/ ListAll
  \/ ListFail

SpecList == InitList /\ [][NextList]_vars

\* runs of update.sh, one after another
NextSh ==
  \/ \E existing \in SUBSET { VerStable, VerSnapshot }, token \in BOOLEAN :
        ShStart(existing, token)
  \/ \E env \in ShEnvs, v \in ContentVersions : ShTurn(env, v)
  \/ \E push \in { "ok", "fails" } : ShFinish(push)

\* ... whatever the API lists
InitSh ==
  /\ file = MissingFile
  /\ formulaDir \in ShDirs
  /\ apiResponse \in Responses
  /\ NothingRan

SpecSh == InitSh /\ [][NextSh]_vars

\* loads of the main formula, one after another
NextLoad ==
  \E code \in ResponseCodes, o \in KeyOrders(DOMAIN file.versions),
     env \in CantonVersionEnvs : FormulaLoad(code, o, env)

\* ... with any manifest and any answer of the API
InitLoad ==
  /\ file \in InitialFiles
  /\ formulaDir = NoVersions
  /\ apiResponse \in Responses
  /\ NothingRan

SpecLoad == InitLoad /\ [][NextLoad]_vars

\* runs of update-main-formula-sha256.ts, one after another
NextUpdate ==
  /\ Len(ciOutput) < 4 * MaxReports
  /\ MainName \in DOMAIN formulaDir => Len(formulaDir[MainName]) <= MaxFormula
  /\ \E o \in KeyOrders(DOMAIN file.versions), env \in UpdateEnvs : UpdateMain(o, env)

\* ... with any manifest and any main formula
InitUpdate ==
  /\ file \in InitialFiles \cup OneEntryFiles
  /\ formulaDir \in MainDirs
  /\ apiResponse = <<>>
  /\ NothingRan

SpecUpdate == InitUpdate /\ [][NextUpdate]_vars

\* calls of getCantonVersionsWithHashes, for every listing
NextHashes ==
  \/ \E n \in 0..MaxListed : HashesStart(n)
  \/ \E t \in inFlight : HashArrives(t)
  \/ \E t \in inFlight : HashRejects(t)

SpecHashes == InitList /\ [][NextHashes]_vars

\* runs of the formula generators, one after another
NextFormulas ==
  \/ GenUsage
  \/ \E versionTag \in GenArgs, env \in GenEnvs : GenOne(versionTag, env)
  \/ \E o \in KeyOrders(DOMAIN file.versions), env \in GenEnvs : GenLatest(o, env)
  \/ \E o \in KeyOrders(DOMAIN file.versions) : AllNewStart(o)
  \/ \E env \in GenEnvs : AllNewGenerate(env)
  \/ \E o \in KeyOrders(DOMAIN file.versions), env \in GenEnvs :
        AllNewLatest(o, env)

\* ... in the tap
InitFormulas ==
  /\ file \in TapFiles
  /\ formulaDir \in TapDirs
  /\ apiResponse = <<>>
  /\ NothingRan

SpecFormulas == InitFormulas /\ [][NextFormulas]_vars

\* runs of generate-versioned-formula.ts with a tag or with --all, one
\* after another, in the tap
NextBatch ==
  \/ \E versionTag \in GenArgs, env \in GenEnvs : GenOne(versionTag, env)
  \/ \E o \in KeyOrders(DOMAIN file.versions) : GenAllStart(o)
  \/ \E env \in GenEnvs : GenAllVersion(env)
  \/ \E o \in KeyOrders(DOMAIN file.versions), env \in GenEnvs :
        GenAllLatest(o, env)

SpecBatch == InitFormulas /\ [][NextBatch]_vars

\* ... for every template and every single manifest entry
InitRender ==
  /\ file \in OneEntryFiles
  /\ formulaDir \in TemplateDirs
  /\ apiResponse = <<>>
  /\ NothingRan

\* the two commands that render
NextRender ==
  \/ \E versionTag \in GenArgs, env \in GenEnvs : GenOne(versionTag, env)
  \/ \E o \in KeyOrders(DOMAIN file.versions), env \in GenEnvs : GenLatest(o, env)

SpecRender == InitRender /\ [][NextRender]_vars

(***************************************************************************)
(* scripts/verify-sha256.ts                                                *)
(***************************************************************************)
\* the count verified when no argument is given, line 13
DefaultCount == << "3" >>

IsDigit(c) == \E k \in 1..Len(Digits) : c = Digits[k]

DigitValue(c) == (CHOOSE k \in 1..Len(Digits) : c = Digits[k]) - 1

\* the longest prefix of s made of digits
DigitPrefix(s) ==
  LET k == CHOOSE n \in 0..Len(s) :
             /\ \A i \in 1..n : IsDigit(s[i])
             /\ (n < Len(s) => ~IsDigit(s[n + 1]))
  IN  SubSeq(s, 1, k)

RECURSIVE DecimalValue(_)
DecimalValue(ds) ==
  IF ds = <<>> THEN 0
  ELSE 10 * DecimalValue(SubSeq(ds, 1, Len(ds) - 1)) + DigitValue(ds[Len(ds)])

\* parseInt(string): an optional sign, then the digits up to the first
\* character that is none; NaN without a digit
parseInt(s) ==
  LET signed == s # <<>> /\ s[1] \in { "-", "+" }
      ds     == DigitPrefix(IF signed THEN Tail(s) ELSE s)
  IN  IF ds = <<>> THEN NaN
      ELSE IF signed /\ s[1] = "-" THEN Number(0 - DecimalValue(ds))
      ELSE Number(DecimalValue(ds))

\* process.argv[2] || "3", line 13: no argument and the empty argument
\* give the default
CountOf(argv) ==
  parseInt(IF argv = <<>> \/ argv[1] = <<>> THEN DefaultCount ELSE argv[1])

\* Array.prototype.slice(0, end): NaN is taken as 0, a negative end counts
\* from the end of the array
SliceTo(s, end) ==
  LET last == IF end.nan THEN 0
              ELSE IF end.value < 0
                THEN (IF Len(s) + end.value < 0 THEN 0 ELSE Len(s) + end.value)
              ELSE IF end.value < Len(s) THEN end.value
              ELSE Len(s)
  IN  SubSeq(s, 1, last)

\* a line of the report: the tag, what was found, and the digest calculated
Report(t, k, calculated) == [ tag |-> t, kind |-> k, got |-> calculated ]

\* lines 16-22, 61-64: read the manifest and take the first count entries;
\* a file that cannot be read or parsed, or that has no versions object,
\* is a fatal error
VerifyStart(argv, o) ==
  /\ Stopped
  /\ FreshProcess
  /\ releases' = <<>>
  /\ count' = CountOf(argv)
  /\ errors' = 0
  /\ reported' = <<>>
  /\ IF ManifestUnusable(file)
       THEN /\ versions' = <<>>
            /\ pc' = "done"
            /\ exitCode' = "1"
            /\ event' = Ev("verify_fatal", NoTag)
       ELSE /\ versions' = SliceTo(Entries(file.versions, o), count')
            /\ pc' = "verify"
            /\ exitCode' = "none"
            /\ event' = Ev("verify_start", NoTag)
  /\ overwrite' = NotAsked
  /\ UNCHANGED << file, formulaDir, newVersionTags, generated, invoked,
                  apiResponse, restVars >>

\* a mismatch that ends the loop
VerifyMismatchAborts(v) ==
  /\ pc = "verify"
  /\ idx <= Len(versions)
  /\ LET tag        == versions[idx].tag
         info       == versions[idx].info
         calculated == calculateSha256(info.download_url, v)
     IN  /\ calculated # info.sha256
         /\ reported' = Append(reported, Report(tag, "mismatch", calculated))
         /\ event' = Dl("verify_mismatch", tag)
  /\ errors' = errors + 1
  /\ idx' = Len(versions) + 1
  /\ UNCHANGED << file, formulaDir, pc, exitCode, newVersionTags, generated,
                  invoked, count, versions, apiResponse, restVars, overwrite, syncVars >>

\* lines 24-45: the download succeeds and the digest of the content served,
\* version v of it, differs from the stored one
VerifyMismatch(v) ==
  /\ pc = "verify"
  /\ idx <= Len(versions)
  /\ LET tag        == versions[idx].tag
         info       == versions[idx].info
         calculated == calculateSha256(info.download_url, v)
     IN  /\ calculated # info.sha256
         /\ reported' = Append(reported, Report(tag, "mismatch", calculated))
         /\ event' = Dl("verify_mismatch", tag)
  /\ errors' = errors + 1
  /\ idx' = idx + 1
  /\ UNCHANGED << file, formulaDir, pc, exitCode, newVersionTags, generated,
                  invoked, count, versions, apiResponse, restVars, overwrite, syncVars >>

\* lines 24-39: the download succeeds and the digest is the stored one
VerifyMatch(v) ==
  /\ pc = "verify"
  /\ idx <= Len(versions)
  /\ LET tag        == versions[idx].tag
         info       == versions[idx].info
         calculated == calculateSha256(info.download_url, v)
     IN  /\ calculated = info.sha256
         /\ reported' = Append(reported, Report(tag, "verified", calculated))
         /\ event' = Dl("verify_ok", tag)
  /\ idx' = idx + 1
  /\ UNCHANGED << file, formulaDir, pc, exitCode, newVersionTags, generated,
                  invoked, count, versions, errors, apiResponse, restVars, overwrite, syncVars >>

\* lines 28-31, 46-49: fetch rejects or the response is not ok; the catch
\* counts it
VerifyFail ==
  /\ pc = "verify"
  /\ idx <= Len(versions)
  /\ reported' = Append(reported, Report(versions[idx].tag, "failed", Undefined))
  /\ event' = Dl("verify_failed", versions[idx].tag)
  /\ errors' = errors + 1
  /\ idx' = idx + 1
  /\ UNCHANGED << file, formulaDir, pc, exitCode, newVersionTags, generated,
                  invoked, count, versions, apiResponse, restVars, overwrite, syncVars >>

\* lines 52-57: after the loop, exit 1 when an error was counted
VerifyFinish ==
  /\ pc = "verify"
  /\ idx > Len(versions)
  /\ pc' = "done"
  /\ exitCode' = IF errors > 0 THEN "1" ELSE "0"
  /\ event' = Ev(IF errors > 0 THEN "verify_errors" ELSE "verify_passed", NoTag)
  /\ UNCHANGED << file, formulaDir, idx, newVersionTags, generated, invoked,
                  count, versions, errors, reported, apiResponse, restVars, overwrite, syncVars >>

\* the content version of a digest stored when the asset held something
\* else than it serves now
StaleContent == 0

\* the tags of the entries to verify
VerifyTags == { TagStable, TagSnapshot, TagUpper }

\* an entry whose stored digest is d
VerifyEntry(tag, d) ==
  [ GenEntry(tag, FALSE, Epoch - 1) EXCEPT !.sha256 = d ]

\* the digests an entry may store: of a content the asset serves, of an
\* earlier content, or none
VerifyDigests(tag) ==
  { Undefined } \cup
  { calculateSha256(GenEntry(tag, FALSE, Epoch - 1).download_url, v) :
      v \in ContentVersions \cup { StaleContent } }

\* the manifests to verify
VerifyFiles ==
  { MissingFile, CorruptFile, ShapelessFile } \cup
  UNION { { [ kind |-> "ok", updated_at |-> Epoch,
              versions |-> [ t \in S |-> VerifyEntry(t, d[t]) ] ] :
            d \in { f \in [ S -> UNION { VerifyDigests(t) : t \in S } ] :
                      \A t \in S : f[t] \in VerifyDigests(t) } } :
          S \in SUBSET VerifyTags }

\* process.argv.slice(2) of verify-sha256.ts
VerifyArgs ==
  { <<>>, << <<"1">> >>, << <<"2">> >>, << <<"-","1">> >>, << <<"x">> >> }

\* runs of the verifier, one after another
NextVerify ==
  \/ \E argv \in VerifyArgs, o \in KeyOrders(DOMAIN file.versions) :
        VerifyStart(argv, o)
  \/ \E v \in ContentVersions : VerifyMismatch(v)
  \/ \E v \in ContentVersions : VerifyMatch(v)
  \/ VerifyFail
  \/ VerifyFinish

InitVerify ==
  /\ file \in VerifyFiles
  /\ formulaDir = NoVersions
  /\ apiResponse = <<>>
  /\ NothingRan

SpecVerify == InitVerify /\ [][NextVerify]_vars

(***************************************************************************)
(* Properties of the manifest synchronisation.                             *)
(***************************************************************************)
\* the candidate the for loop is at
Current == topReleases[idx]

\* the persisted manifest holds tag with digest d
Persisted(tag, d) ==
  /\ file.kind = "ok"
  /\ tag \in DOMAIN file.versions
  /\ file.versions[tag].sha256 = d

\* C1: crash safety per item.  Whenever the sync run has moved past a
\* candidate whose digest it computed (and also when it was interrupted
\* after that), the persisted manifest file holds that candidate's entry with
\* its digest.
C1_EarlierDigestsPersisted ==
  pc # "idle" =>
    \A j \in 1..(idx - 1) :
      (j <= Len(topReleases) /\ topReleases[j].damlTag \in hashed) =>
        Persisted(topReleases[j].damlTag,
                  manifest.versions[topReleases[j].damlTag].sha256)

\* C2: a candidate that is in the manifest with a digest is skipped.  The
\* step that handles it issues no download, counts it as skipped and not as
\* added, and changes neither the in-memory manifest nor the manifest file;
\* and a finished run that skipped every candidate has added nothing and
\* its manifest is the one in the file.
C2_CachedCandidateSkipped ==
  /\ [][ ( /\ InLoop
           /\ Current.damlTag \in DOMAIN manifest.versions
           /\ manifest.versions[Current.damlTag].sha256 \notin { Undefined, <<>> }
           /\ pc' # "killed" )
         => ( /\ ~event'.download
              /\ event'.kind = "skipped"
              /\ skippedVersions' = skippedVersions + 1
              /\ newVersions' = newVersions
              /\ manifest' = manifest
              /\ file' = file
              /\ idx' = idx + 1 ) ]_vars
  /\ []( ( /\ event.kind = "summary"
           /\ skippedVersions = Len(topReleases)
           /\ skippedVersions > 0 )
         => ( /\ newVersions = 0
              /\ hashed = {}
              /\ file.kind = "ok"
              /\ file.versions = manifest.versions ) )

\* C2 witness: a finished run that skipped a cached candidate
C2_Witness ==
  /\ event.kind = "summary"
  /\ skippedVersions = Len(topReleases)
  /\ skippedVersions > 0

\* C3: a digest failure is scoped to its candidate.  The step in which the
\* download fails logs the failure, leaves the manifest and the file as they
\* were, does not count the candidate as added, and leaves the loop at the
\* next candidate; a run that ends with its summary has handled every
\* candidate among the first N.
C3_DigestFailureScoped ==
  /\ [][ ( /\ InLoop
           /\ event'.download
           /\ hashed' = hashed )
         => ( /\ event'.kind = "hash_failed"
              /\ event'.tag = Current.damlTag
              /\ manifest' = manifest
              /\ file' = file
              /\ newVersions' = newVersions
              /\ pc' = "loop"
              /\ topReleases' = topReleases
              /\ idx' = idx + 1 ) ]_vars
  /\ []( event.kind = "summary" =>
           \A j \in 1..Len(topReleases) :
             \/ topReleases[j].damlTag \in failed
             \/ topReleases[j].damlTag \in hashed
             \/ topReleases[j].damlTag \in DOMAIN manifest.versions )

\* C3 witness: the first candidate's digest failed and the second candidate
\* was hashed after it
C3_Witness ==
  /\ event.kind = "hashed"
  /\ idx = 2
  /\ topReleases[1].damlTag \in failed

\* C4: digest cache.  In every step of a sequence of manifest-sync and
\* create-versioned-formula runs, a tag whose entry in the persisted manifest
\* has its digest set is not downloaded for hashing, and after the step the
\* persisted manifest still holds that tag with the same digest.
C4_DigestNeverRecomputed ==
  [][ \A t \in CantonTags :
        ( /\ file.kind = "ok"
          /\ t \in DOMAIN file.versions
          /\ file.versions[t].sha256 \notin { Undefined, <<>> } )
        => ( /\ ~(event'.download /\ event'.tag = t)
             /\ Persisted(t, file.versions[t].sha256)' ) ]_vars

\* C5: a manifest write failure is fatal.  When save has failed for a
\* candidate, the process has stopped with exit code 1 and the candidate is
\* not among those counted as added.
C5_SaveFailureFatal ==
  event.kind = "save_failed" =>
    /\ pc = "done"
    /\ exitCode = "1"
    /\ newVersions < Cardinality(hashed)

\* C6: when the release list cannot be fetched, the step computes no
\* digest, leaves the manifest file as it was, and the process exits with
\* code 1.
C6_FetchFailureFatal ==
  [][ event'.kind = "fetch_failed" =>
        /\ pc' = "done"
        /\ hashed' = {}
        /\ ~event'.download
        /\ file' = file
        /\ exitCode' = "1" ]_vars

\* C7: save is atomic.  When the process is interrupted during a save, the
\* persisted file is the complete previous manifest or the complete new
\* manifest.
C7_SaveAtomic ==
  [][ (pc = "save" /\ pc' = "killed") =>
        \/ file' = file
        \/ /\ file'.kind = "ok"
           /\ file'.versions = manifest.versions ]_vars

\* the tags of the first N candidates of the fetch ordering
FirstN == IF limit < Len(releases) THEN limit ELSE Len(releases)

FirstNTags == { releases[j].damlTag : j \in 1..FirstN }

\* C8: in a run in which no digest download failed, exactly the first
\* min(N, number of candidates) candidates of the fetch ordering are
\* processed; at the summary each of their tags is in the manifest with a
\* digest of 64 lowercase hex characters and added + skipped is the number
\* processed; and at no time is a candidate beyond the first N hashed.
C8_FirstNProcessed ==
  /\ pc \in { "loop", "save", "done", "killed" } => hashed \subseteq FirstNTags
  /\ (event.kind = "summary" /\ failed = {}) =>
       /\ topReleases = SubSeq(releases, 1, FirstN)
       /\ idx = FirstN + 1
       /\ newVersions + skippedVersions = FirstN
       /\ \A t \in FirstNTags :
            /\ t \in DOMAIN manifest.versions
            /\ IsHexDigest(manifest.versions[t].sha256)

\* C8 witness: a finished run without digest failure that added a candidate
\* and had more candidates than its limit
C8_Witness ==
  /\ event.kind = "summary"
  /\ failed = {}
  /\ limit < Len(releases)
  /\ newVersions = limit

\* C9: has(tag).  The loop skips its candidate exactly when the manifest has
\* an entry for the tag whose sha256 is neither missing nor empty; a
\* candidate whose entry has no digest is downloaded and hashed again.
C9_HasIffDigestSet ==
  [][ (InLoop /\ pc' # "killed") =>
        LET t == Current.damlTag
            set == /\ t \in DOMAIN manifest.versions
                   /\ manifest.versions[t].sha256 # Undefined
                   /\ manifest.versions[t].sha256 # <<>>
        IN  /\ event'.kind = "skipped" <=> set
            /\ ~set => (event'.download /\ event'.tag = t) ]_vars

\* C9 witness: a candidate whose stored entry has an empty sha256 was hashed
C9_Witness ==
  /\ event.kind = "hashed"
  /\ Persisted(event.tag, <<>>)

\* C10: load does not fail.  With the manifest file missing or unparseable,
\* the load step raises nothing: it yields a manifest without entries, as
\* when no version is cached, and the run goes on to fetch the releases.
C10_LoadNeverFails ==
  [][ ( /\ pc = "load"
        /\ file.kind \in { "missing", "corrupt" }
        /\ pc' # "killed" )
      => ( /\ pc' = "fetch"
           /\ exitCode' = "none"
           /\ manifest'.shape = "ok"
           /\ DOMAIN manifest'.versions = {} ) ]_vars

\* C10 witness: a run that loaded an unparseable file is hashing a candidate
C10_Witness ==
  /\ file.kind = "corrupt"
  /\ event.kind = "hashed"
  /\ DOMAIN manifest.versions = { event.tag }

\* C11: the manifest is persisted on completion.  When a sync run has
\* printed its summary, the manifest file exists and holds the entries of
\* the in-memory manifest, also in a run that added no candidate.
C11_PersistedOnCompletion ==
  event.kind = "summary" =>
    /\ file.kind = "ok"
    /\ file.versions = manifest.versions

\* C12: manifest round trip.  After every completed save, loading the file
\* yields the tags and the entry fields of the manifest that was saved, and
\* saving the loaded manifest again, at any time, writes a file that differs
\* from the first at most in updated_at.
C12_ManifestRoundTrip ==
  [][ event'.kind = "saved" =>
        LET loaded == loadManifest(file', manifest'.updated_at)
        IN  /\ loaded.shape = "ok"
            /\ DOMAIN loaded.versions = DOMAIN manifest'.versions
            /\ \A t \in DOMAIN loaded.versions :
                 \A k \in EntryKeys :
                   loaded.versions[t][k] = manifest'.versions[t][k]
            /\ \A now \in Clock :
                 LET again == ManifestFile([ loaded EXCEPT !.updated_at = now ])
                 IN  /\ again.kind = file'.kind
                     /\ again.versions = file'.versions ]_vars

\* C12 witness: a manifest was saved that holds, next to the entry just
\* added, a loaded entry without sha256 key and two entries in all
C12_Witness ==
  /\ event.kind = "saved"
  /\ file.kind = "ok"
  /\ Cardinality(DOMAIN manifest.versions) = 2
  /\ \E t \in DOMAIN manifest.versions : manifest.versions[t].sha256 = Undefined

\* C13: the fetch ordering.  In the list getAllCantonVersions returns,
\* every prerelease comes before every stable release and, among releases of
\* one type, none comes before a release published later; the list holds
\* exactly the listed releases that carry a canton asset.
C13_FetchOrdering ==
  event.kind = "listed" =>
    /\ \A i, j \in 1..Len(releases) :
         i < j =>
           /\ releases[j].isPrerelease => releases[i].isPrerelease
           /\ releases[i].isPrerelease = releases[j].isPrerelease
                => releases[i].publishedAt >= releases[j].publishedAt
    /\ { releases[i].damlTag : i \in 1..Len(releases) }
         = { apiResponse[i].tag_name :
               i \in { k \in 1..Len(apiResponse) : HasCantonAsset(apiResponse[k]) } }
    /\ \A i, j \in 1..Len(releases) :
         i # j => releases[i].damlTag # releases[j].damlTag

\* C13 witness: the API listed R2 (stable, earlier), R3 (stable, later), R1
\* (prerelease, later than R2 and earlier than R3); the list is R1, R3, R2
C13_Witness ==
  /\ event.kind = "listed"
  /\ Len(releases) = 3
  /\ Len(apiResponse) = 3
  /\ releases[1].damlTag = apiResponse[3].tag_name
  /\ releases[2].damlTag = apiResponse[2].tag_name
  /\ releases[3].damlTag = apiResponse[1].tag_name
  /\ releases[1].isPrerelease
  /\ ~releases[2].isPrerelease
  /\ ~releases[3].isPrerelease
  /\ releases[3].publishedAt < releases[1].publishedAt
  /\ releases[1].publishedAt < releases[2].publishedAt

(***************************************************************************)
(* Properties of the formula generators.                                   *)
(***************************************************************************)
\* a manifest entry as a candidate of the fetch ordering
AsRelease(t, e) ==
  [ damlTag |-> t, isPrerelease |-> e.is_prerelease, publishedAt |-> e.published_at ]

\* the tags that the fetch ordering puts first among the manifest's entries
FetchFirstTags(vs) ==
  { t \in DOMAIN vs :
      \A u \in DOMAIN vs :
        CompareReleases(AsRelease(t, vs[t]), AsRelease(u, vs[u])) <= 0 }

\* the kinds of the steps of a generate-versioned-formula.ts <tag> process
\* and of a --latest process
OneKinds ==
  { "one_load_error", "one_type_error", "one_not_found", "one_declined",
    "one_write_error", "one_written" }

LatestKinds ==
  { "latest_load_error", "latest_type_error", "latest_no_versions",
    "latest_write_error", "latest_written" }

\* the kinds of the steps that end a generate-formulas-for-new-releases.ts
\* run that has read its manifest
AllNewEnds ==
  { "allnew_none", "allnew_latest_load_error", "allnew_latest_type_error",
    "allnew_latest_no_versions", "allnew_latest_write_error",
    "allnew_latest_written" }

\* C14: the version of the main formula.  Whenever the main formula has
\* been rendered, by --latest or at the end of a run for the new releases,
\* it is rendered from the entry that the fetch ordering (prereleases first,
\* then newest first) puts first among the manifest's entries.
C14_LatestIsFetchFirst ==
  event.kind \in { "latest_written", "allnew_latest_written" } =>
    /\ event.tag \in FetchFirstTags(file.versions)
    /\ formulaDir[MainName]
         = generateFormula(formulaDir[TemplateName], event.tag,
                           file.versions[event.tag], TRUE)

\* C15: --latest.  A --latest run that wrote its file rendered, with
\* isLatest = TRUE, an entry of the manifest that no other entry is
\* published later than, into canton.rb, and ended with code 0; a --latest
\* run on a manifest without entries ends with an error and code 1 and
\* leaves Formula/ as it was.
C15_LatestByPublishedAt ==
  /\ []( event.kind = "latest_written" =>
           /\ event.tag \in DOMAIN file.versions
           /\ \A u \in DOMAIN file.versions :
                file.versions[u].published_at
                  <= file.versions[event.tag].published_at
           /\ MainName \in DOMAIN formulaDir
           /\ formulaDir[MainName]
                = generateFormula(formulaDir[TemplateName], event.tag,
                                  file.versions[event.tag], TRUE)
           /\ exitCode = "0" )
  /\ [][ ( /\ event'.kind \in LatestKinds
           /\ file.kind = "ok"
           /\ DOMAIN file.versions = {} )
         => ( /\ event'.kind \in { "latest_no_versions", "latest_load_error" }
              /\ exitCode' = "1"
              /\ formulaDir' = formulaDir ) ]_vars

\* C15 witness: --latest rendered the later published of two entries over
\* an older main formula
C15_Witness ==
  /\ event.kind = "latest_written"
  /\ Cardinality(DOMAIN file.versions) = 2
  /\ formulaDir[MainName] # OldFormula

C17_AllNewThenLatest ==
  /\ [][ event'.kind \in { "allnew_found", "allnew_none" } =>
           Range(newVersionTags')
             = { t \in DOMAIN file.versions :
                   FormulaFilename(StripV(t)) \notin DOMAIN formulaDir } ]_vars
  /\ []( event.kind \in AllNewEnds =>
           /\ invoked # <<>>
           /\ invoked[Len(invoked)] = LatestFlag
           /\ SubSeq(invoked, 1, Len(invoked) - 1) = newVersionTags )

(***************************************************************************)
(* Properties of the verifier.                                             *)
(***************************************************************************)
\* the kinds of the steps that end a verify-sha256.ts run that has read its
\* manifest
VerifyEnds == { "verify_errors", "verify_passed" }

\* the entries of vs that come first in some enumeration of its keys, n of
\* them or all when there are fewer
FirstEntries(vs, n) ==
  LET k == IF n < Cardinality(DOMAIN vs) THEN n ELSE Cardinality(DOMAIN vs)
  IN  { SubSeq(Entries(vs, o), 1, k) : o \in KeyOrders(DOMAIN vs) }

PlaceholderNames ==
  { CLASS_SUFFIX, VERSION_TYPE, DOWNLOAD_URL, SHA256, VERSION, CANTON_VERSION,
    DAML_TAG, IS_PRERELEASE, RELEASE_TYPE }

\* the value of each placeholder for a record
ValueOf(name, versionTag, info, isLatest) ==
  CASE name = CLASS_SUFFIX   -> classSuffix(versionTag, isLatest)
    [] name = VERSION_TYPE   -> versionType(versionTag, isLatest)
    [] name = DOWNLOAD_URL   -> UrlText(info.download_url)
    [] name = SHA256         -> info.sha256
    [] name = VERSION        -> StripV(versionTag)
    [] name = CANTON_VERSION -> info.canton_version
    [] name = DAML_TAG       -> versionTag
    [] name = IS_PRERELEASE  -> IF info.is_prerelease THEN << "Yes" >> ELSE << "No" >>
    [] name = RELEASE_TYPE   -> IF info.is_prerelease THEN << "pre-release" >>
                                ELSE << "stable" >>

\* the placeholder that stands at position i of text, <<>> when none does
TokenAt(text, i) ==
  LET ns == { n \in PlaceholderNames : MatchesAt(text, Placeholder(n), i) }
  IN  IF ns = {} THEN <<>> ELSE CHOOSE n \in ns : TRUE

\* text from position from on with each placeholder token replaced by its
\* value as it is, in one pass
RECURSIVE Substitute(_, _, _, _, _)
Substitute(text, from, versionTag, info, isLatest) ==
  LET at == { i \in from..Len(text) : text[i] = "{" /\ TokenAt(text, i) # <<>> }
  IN  IF at = {} THEN SubSeq(text, from, Len(text))
      ELSE LET i == CHOOSE k \in at : \A j \in at : k <= j
               n == TokenAt(text, i)
           IN  SubSeq(text, from, i - 1)
               \o ValueOf(n, versionTag, info, isLatest)
               \o Substitute(text, i + Len(Placeholder(n)), versionTag, info,
                             isLatest)

\* one of the nine tokens occurs in text
HoldsPlaceholder(text) ==
  \E i \in 1..Len(text) : text[i] = "{" /\ TokenAt(text, i) # <<>>

\* the file a run has just written, and whether it was written as the
\* main formula
WrittenAsLatest == event.kind = "latest_written"

WrittenFile ==
  IF WrittenAsLatest THEN formulaDir[MainName]
  ELSE formulaDir[FormulaFilename(StripV(event.tag))]

\* C19: literal substitution.  The file a generator run has written is its
\* template with every occurrence of each of the nine placeholders replaced
\* by the value of that placeholder, character for character as the record
\* holds it, and with everything else, other {{NAME}} tokens included, as in
\* the template; none of the nine tokens occurs in it.
C19_LiteralSubstitution ==
  event.kind \in { "one_written", "latest_written" } =>
    /\ WrittenFile
         = Substitute(formulaDir[TemplateName], 1, event.tag,
                      file.versions[event.tag], WrittenAsLatest)
    /\ ~HoldsPlaceholder(WrittenFile)

\* text with its letters in lower case
Lowered(text) == [ k \in 1..Len(text) |-> Downcase(text[k]) ]

\* C20: the class suffix.  From the template `class {{CLASS_SUFFIX}}` the
\* main formula is written as `class ` with nothing after it; a versioned
\* formula is written as `class AT` followed by the cleaned version without
\* its `.` and `-` characters, changed in the case of its letters at most,
\* and what follows `class ` consists of letters and digits only.
C20_ClassSuffix ==
  ( /\ event.kind \in { "one_written", "latest_written" }
    /\ formulaDir[TemplateName] = TemplateClass ) =>
      IF WrittenAsLatest
        THEN WrittenFile = << "class " >>
        ELSE LET token   == Tail(WrittenFile)
                 cleaned == SelectSeq(StripV(event.tag),
                                      LAMBDA c : c \notin { ".", "-" })
             IN  /\ WrittenFile[1] = "class "
                 /\ Len(token) = 2 + Len(cleaned)
                 /\ SubSeq(token, 1, 2) = << "A", "T" >>
                 /\ Lowered(SubSeq(token, 3, Len(token))) = Lowered(cleaned)
                 /\ \A k \in 1..Len(token) : IsAlnum(token[k])

\* C21: version cleaning is idempotent.  For every tag that a generate-one
\* run has cleaned, cleaning the cleaned tag once more changes nothing.
C21_CleanIdempotent ==
  ( /\ event.kind \in OneKinds
    /\ invoked # <<>> ) =>
      StripV(StripV(TagWithV(invoked[1]))) = StripV(TagWithV(invoked[1]))

C23_OverwritePolicy ==
  [][ /\ ( /\ event'.kind \in OneKinds
           /\ Prompts(file, formulaDir, invoked'[1])
           /\ formulaDir' # formulaDir ) => overwrite' \in { "y", "Y" }
      /\ ( /\ pc = "genall"
           /\ idx' = idx + 1
           /\ Prompts(file, formulaDir, versions[idx]) ) =>
             /\ overwrite' = NotAsked
             /\ event'.kind \in { "all_written", "all_write_error" } ]_vars

\* the tags a step removes from a readable manifest file
Lost(before, after) ==
  IF before.kind = "ok" /\ after.kind = "ok"
    THEN DOMAIN before.versions \ DOMAIN after.versions
    ELSE {}

\* C24: the race on the save step.  Every save writes the in-memory copy of
\* the saving process, whole and without reading the file again; entries
\* of the file are lost by a save only when a second process is at work,
\* and the lost entries are those the saver neither loaded nor hashed.
C24_SaveRace ==
  [][ event'.kind = "saved" =>
        /\ file' = ManifestFile(manifest')
        /\ DOMAIN manifest'.versions = DOMAIN manifest.versions
        /\ Lost(file, file') # {} => other[1] # "idle" ]_vars

\* C24 witness: the running process has just saved, the other process
\* has hashed and saved an entry before, and the file no longer holds it
C24_Witness ==
  /\ event.kind = "saved"
  /\ other[1] \in { "loop", "done" }
  /\ \E t \in other[9] :
       /\ t \in DOMAIN other[3].versions
       /\ t \notin DOMAIN file.versions

\* C25: sequential execution.  At any time at most one download is in
\* flight: the hash computations of different releases are issued one
\* after another, each after the one before has ended.
C25_OneInFlight == Cardinality(inFlight) <= 1

UpdateKinds ==
  { "update_load_error", "update_no_versions", "update_read_error",
    "update_not_found", "update_write_error", "update_type_error",
    "update_updated", "update_append_error", "update_reported" }

\* text holds the marker, a { after it and a } after that
HasFallbackBlock(text) ==
  \E i \in 1..Len(text) :
    /\ text[i] = Marker
    /\ \E j \in (i + 1)..Len(text) :
         /\ text[j] = "{"
         /\ \E k \in (j + 1)..Len(text) : text[k] = "}"

\* C26: the update-fallback workflow.  When a run of the update adds to the
\* CI-output file, GITHUB_OUTPUT was set, canton.rb held the fallback
\* block, the file now holds the rewritten block, the process ends with 0,
\* and what was added are the four lines formula_updated, tag, sha256 and
\* canton_version after the lines the file held.  When canton.rb holds no
\* fallback block the run changes neither Formula/ nor the CI-output file
\* and ends with exit code 1.
C26_UpdateFallback ==
  [][ event'.kind \in UpdateKinds =>
        /\ ciOutput' # ciOutput =>
             /\ githubOutput'
             /\ MainName \in DOMAIN formulaDir
             /\ HasFallbackBlock(formulaDir[MainName])
             /\ \E i \in 1..(Len(formulaDir'[MainName]) - 1) :
                  /\ formulaDir'[MainName][i] = Marker
                  /\ formulaDir'[MainName][i + 1]
                       = " (should be kept in sync via updates)"
             /\ exitCode' = "0"
             /\ Len(ciOutput') = Len(ciOutput) + 4
             /\ SubSeq(ciOutput', 1, Len(ciOutput)) = ciOutput
             /\ [ n \in 1..4 |-> ciOutput'[Len(ciOutput) + n][1] ]
                  = << "formula_updated", "tag", "sha256", "canton_version" >>
             /\ ciOutput'[Len(ciOutput) + 1][2] = << "true" >>
             /\ ciOutput'[Len(ciOutput) + 2][2] = event'.tag
        /\ ( /\ MainName \in DOMAIN formulaDir
             /\ ~HasFallbackBlock(formulaDir[MainName]) ) =>
               /\ formulaDir' = formulaDir
               /\ ciOutput' = ciOutput
               /\ exitCode' = "1" ]_vars

\* C26 witness: a run with GITHUB_OUTPUT set has rewritten canton.rb and
\* appended its four lines to a CI-output file that held four
C26_Witness ==
  /\ event.kind = "update_reported"
  /\ githubOutput
  /\ Len(ciOutput) = 8
  /\ exitCode = "0"

\* the record comes from the first tier that is available: the API when
\* the call succeeded and lists a release with a canton asset, else the
\* manifest when it can be read and holds an entry, the one published
\* last, else the hardcoded record
ResolvedByTiers ==
  IF /\ responseCode = "200"
     /\ \E i \in 1..Len(apiResponse) : HasCantonAsset(apiResponse[i])
    THEN \E i \in 1..Len(apiResponse) :
           /\ HasCantonAsset(apiResponse[i])
           /\ mainLatest.daml_tag = apiResponse[i].tag_name
           /\ mainLatest.download_url
                = FindCantonAsset(apiResponse[i]).browser_download_url
  ELSE IF file.kind = "ok" /\ DOMAIN file.versions # {}
    THEN /\ mainLatest.daml_tag \in DOMAIN file.versions
         /\ mainLatest.download_url
              = file.versions[mainLatest.daml_tag].download_url
         /\ \A t \in DOMAIN file.versions :
              file.versions[t].published_at
                <= file.versions[mainLatest.daml_tag].published_at
  ELSE mainLatest = Hardcoded

\* C27: the tiers of the main formula.  Loading the formula always yields
\* a record; with CANTON_VERSION set it is the record of that version,
\* otherwise it comes from the API, else from the manifest, else it is the
\* hardcoded record.
C27_FallbackTiers ==
  event.kind = "formula_loaded" =>
    /\ mainLatest.daml_tag # <<>>
    /\ IF envCantonVersion # Undefined
         THEN mainLatest.canton_version = envCantonVersion
         ELSE ResolvedByTiers

\* C28: one class name.  The formula a run of create-versioned-formula.rb
\* has written names its class as the template renderer would name the
\* class of the same tag: CantonAT, then the tag without its leading v
\* and without its characters that are no letters or digits, the word
\* snapshot written Snapshot.
C28_SameClassName ==
  ( /\ event.kind \in { "rb_cached", "rb_hashed" }
    /\ RbFormulaFilename(event.tag) \in DOMAIN formulaDir ) =>
      formulaDir[RbFormulaFilename(event.tag)].class_name
        = << "CantonAT" >> \o sanitizeVersionForClass(StripV(event.tag))

\* C30: publication times.  Every entry of the manifest file carries as
\* published_at the publication time of its upstream release, after every
\* step of manifest-sync runs and create-versioned-formula runs.
C30_PublishedAtUpstream ==
  file.kind = "ok" =>
    \A t \in DOMAIN file.versions \cap Tags :
      file.versions[t].published_at = ReleaseOf(t).published_at

\* C29: the formula follows the first release only.  A turn of the loop
\* of update.sh changes Formula/canton.rb only when it is the turn of the
\* first release of the fetched list, whatever happened to the releases
\* before it.
C29_FirstReleaseOnly ==
  [][ ( /\ pc = "sh_loop"
        /\ MainName \in DOMAIN formulaDir
        /\ formulaDir'[MainName] # formulaDir[MainName] ) => idx = 1 ]_vars

====
